---- MODULE Spec2Model ----
(***************************************************************************)
(* jlog: the entry parsing and aggregation engine (src/jlog/parser.py).    *)
(*                                                                         *)
(* Text is a sequence of tokens.  A token is one character ("#", " ",      *)
(* "\n", "0", ...), one emoji, or one literal phrase that a regular        *)
(* expression of the program matches as a whole ("Start time",             *)
(* "What I learned", ...).  The regular expressions of the program are     *)
(* run by a small backtracking matcher with the semantics of Python's re:  *)
(* greedy quantifiers, ordered alternatives, leftmost search.              *)
(*                                                                         *)
(* Hours are held in minutes (1/60 h).  The time and extra-hours texts     *)
(* drawn below are those on which the program's binary floating point      *)
(* arithmetic is exact or away from a rounding tie, so that the integer    *)
(* arithmetic here gives the same text as the program.                     *)
(***************************************************************************)
EXTENDS Integers, Sequences, FiniteSets, TLC

VARIABLES
    pc,           \* position of the run: "start" before the call, "done" after it
    start_time,   \* calculate_work_time: argument start_time
    end_time,     \* calculate_work_time: argument end_time
    extra_hours,  \* calculate_work_time: argument extra_hours
    duration,     \* calculate_work_time: local base_hours (in minutes), <<>> while unset
    work_hours,   \* calculate_work_time: local work_hours (in minutes), <<>> while unset
    work_time,    \* calculate_work_time: the returned text
    content,      \* the text of the document being parsed
    section_content, \* parse_entry_sections: local section_content of each key
    sections,     \* parse_entry_sections: the returned dictionary
    time_section, \* parse_time_tracking: local time_section, <<>> while unset
    time_data,    \* parse_time_tracking: the returned dictionary
    section_body, \* parse_section_entries: argument section_content
    entries,      \* parse_section_entries: the returned list of (text, comment)
    entries_dir,  \* parse_journal_entries: the *.md files of the directory
    file_index,   \* parse_journal_entries: number of files the loop has handled
    aggregated,   \* parse_journal_entries: the dictionary being filled
    sorted_dates, \* get_readme_template: local sorted_dates
    current_streak, \* calculate_current_streak: the returned number, <<>> while unset
    streak_groups,  \* generate_table_rows_with_breaks: local streak_groups
    table_rows,   \* generate_table_rows_with_breaks: the returned rows
    readme,       \* get_readme_template: what the dashboard shows, <<>> while unset
    weekly_data,  \* get_weekly_work_time_data: the returned dictionary
    total_work_time, \* calculate_total_work_time: the returned text, <<>> while unset
    daily_series, \* create_daily_hours_chart_html: locals dates and hours, as pairs
    weekly_series, \* create_weekly_hours_chart_html: locals weeks and hours, as pairs
    category_table, \* get_aggregated_table_template: the rows of the table
    journal,      \* today_command: the configuration and the files it works on
    push          \* push_command: its locals and the commands it has run

vars == <<pc, start_time, end_time, extra_hours, duration, work_hours, work_time,
          content, section_content, sections, time_section, time_data,
          section_body, entries, entries_dir, file_index, aggregated,
          sorted_dates, current_streak, streak_groups, table_rows, readme,
          weekly_data, total_work_time, daily_series, weekly_series, category_table,
          journal, push>>

calcVars == <<start_time, end_time, extra_hours, duration, work_hours, work_time>>
docVars == <<content, section_content, sections, time_section, time_data>>
itemVars == <<section_body, entries>>
aggVars == <<entries_dir, file_index, aggregated>>
dashVars == <<sorted_dates, current_streak, streak_groups, table_rows, readme>>
rollVars == <<weekly_data, total_work_time, daily_series, weekly_series, category_table>>
cmdVars == <<journal, push>>

\* The variables of the functions a run does not call keep their first values.
NoItems == section_body = <<>> /\ entries = <<>>
NoAggregate == entries_dir = <<>> /\ file_index = 0 /\ aggregated = <<>>
NoDashboard ==
    /\ sorted_dates = <<>>
    /\ current_streak = <<>>
    /\ streak_groups = <<>>
    /\ table_rows = <<>>
    /\ readme = <<>>
NoRollups ==
    /\ weekly_data = <<>>
    /\ total_work_time = <<>>
    /\ daily_series = <<>>
    /\ weekly_series = <<>>
    /\ category_table = <<>>
NoCommand == journal = <<>> /\ push = <<>>

-----------------------------------------------------------------------------
(* Text *)

\* Python's None, a value that is no text.
None == <<"<None>">>

DigitChars == <<"0", "1", "2", "3", "4", "5", "6", "7", "8", "9">>
Digit == {DigitChars[k] : k \in 1..10}
DigitVal(c) == (CHOOSE k \in 1..10 : DigitChars[k] = c) - 1

\* What \s matches.
Space == {" ", "\n", "\t", "\r"}

RECURSIVE DigitsVal(_)
DigitsVal(ds) ==
    IF Len(ds) = 0 THEN 0
    ELSE DigitsVal(SubSeq(ds, 1, Len(ds) - 1)) * 10 + DigitVal(ds[Len(ds)])

RECURSIVE IntToStr(_)
IntToStr(n) ==
    IF n < 10 THEN <<DigitChars[n + 1]>>
    ELSE IntToStr(n \div 10) \o <<DigitChars[(n % 10) + 1]>>

RECURSIVE Pow10(_)
Pow10(n) == IF n = 0 THEN 1 ELSE 10 * Pow10(n - 1)

\* str.strip()
RECURSIVE LStrip(_)
LStrip(s) == IF Len(s) > 0 /\ s[1] \in Space THEN LStrip(Tail(s)) ELSE s
RECURSIVE RStrip(_)
RStrip(s) ==
    IF Len(s) > 0 /\ s[Len(s)] \in Space THEN RStrip(SubSeq(s, 1, Len(s) - 1)) ELSE s
Strip(s) == RStrip(LStrip(s))

-----------------------------------------------------------------------------
(* Regular expressions (Python's re) *)

\* An atom: one token of a class, a quantified class, ordered alternatives,
\* or a mark that records the position it is reached at.
One(cls) == [q |-> "1", cls |-> cls, alts |-> <<>>]
Opt(cls) == [q |-> "?", cls |-> cls, alts |-> <<>>]
Star(cls) == [q |-> "*", cls |-> cls, alts |-> <<>>]
Plus(cls) == [q |-> "+", cls |-> cls, alts |-> <<>>]
Alt(alts) == [q |-> "alt", cls |-> {}, alts |-> alts]
Mark == [q |-> "mark", cls |-> {}, alts |-> <<>>]

\* The number of consecutive tokens of cls in s from position i on.
RECURSIVE Run(_, _, _)
Run(cls, s, i) == IF i <= Len(s) /\ s[i] \in cls THEN 1 + Run(cls, s, i + 1) ELSE 0

Min2(a, b) == IF a < b THEN a ELSE b
Max2(a, b) == IF a > b THEN a ELSE b

\* Match(pat, s, i): pattern pat against s from position i.  <<>> when it does
\* not match, else the positions of the marks followed by the position after
\* the match.
RECURSIVE Match(_, _, _)
RECURSIVE Greedy(_, _, _, _, _)
RECURSIVE FirstAlt(_, _, _, _)
Match(pat, s, i) ==
    IF Len(pat) = 0 THEN <<i>>
    ELSE LET a == Head(pat)
             rest == Tail(pat)
         IN CASE a.q = "1" ->
                    IF i <= Len(s) /\ s[i] \in a.cls THEN Match(rest, s, i + 1) ELSE <<>>
              [] a.q = "mark" ->
                    LET r == Match(rest, s, i) IN IF r = <<>> THEN <<>> ELSE <<i>> \o r
              [] a.q = "alt" -> FirstAlt(a.alts, rest, s, i)
              [] a.q = "?" -> Greedy(rest, s, i, Min2(1, Run(a.cls, s, i)), 0)
              [] a.q = "*" -> Greedy(rest, s, i, Run(a.cls, s, i), 0)
              [] a.q = "+" -> Greedy(rest, s, i, Run(a.cls, s, i), 1)

\* A greedy quantifier: the longest repetition, n down to lo, after which the
\* rest of the pattern matches.
Greedy(rest, s, i, n, lo) ==
    IF n < lo THEN <<>>
    ELSE LET r == Match(rest, s, i + n)
         IN IF r # <<>> THEN r ELSE Greedy(rest, s, i, n - 1, lo)

\* Alternatives in order: the first after which the rest of the pattern matches.
FirstAlt(alts, rest, s, i) ==
    IF Len(alts) = 0 THEN <<>>
    ELSE LET r == Match(Head(alts) \o rest, s, i)
         IN IF r # <<>> THEN r ELSE FirstAlt(Tail(alts), rest, s, i)

\* re.search from position from on: the leftmost match.  <<>> when there is
\* none, else the start of the match followed by Match's result.
\* The leftmost match that starts at one of the positions lo..hi: in the
\* first half of them, else in the second.
RECURSIVE SearchIn(_, _, _, _)
SearchIn(pat, s, lo, hi) ==
    IF lo > hi THEN <<>>
    ELSE IF lo = hi
    THEN LET Found(r) == IF r # <<>> THEN <<lo>> \o r ELSE <<>>
         IN Found(Match(pat, s, lo))
    ELSE LET OrLater(first) ==
                 IF first # <<>> THEN first ELSE SearchIn(pat, s, (lo + hi) \div 2 + 1, hi)
         IN OrLater(SearchIn(pat, s, lo, (lo + hi) \div 2))
SearchFrom(pat, s, from) == SearchIn(pat, s, from, Len(s) + 1)

Search(pat, s) == SearchFrom(pat, s, 1)

-----------------------------------------------------------------------------
(* Time Parser: parse_time_string *)

\* The regular expressions datetime.strptime builds for its directives.
DirH == Alt(<< <<One({"2"}), One({"0", "1", "2", "3"})>>,
               <<One({"0", "1"}), One(Digit)>>,
               <<One(Digit)>> >>)
DirI == Alt(<< <<One({"1"}), One({"0", "1", "2"})>>,
               <<One({"0"}), One(Digit \ {"0"})>>,
               <<One(Digit \ {"0"})>> >>)
DirM == Alt(<< <<One({"0", "1", "2", "3", "4", "5"}), One(Digit)>>,
               <<One(Digit)>> >>)
DirP == Alt(<< <<One({"a", "A"}), One({"m", "M"})>>,
               <<One({"p", "P"}), One({"m", "M"})>> >>)

\* The formats tried, in order.  The hour lies between marks 1 and 2, the
\* minute (hasM) between marks 3 and 4, the meridiem (hasP) starts at the
\* last mark.
formats ==
    << [pat |-> <<Mark, DirH, Mark, One({":"}), Mark, DirM, Mark>>,
        hasM |-> TRUE, hasP |-> FALSE],
       [pat |-> <<Mark, DirI, Mark, One({":"}), Mark, DirM, Mark, Plus(Space), Mark, DirP>>,
        hasM |-> TRUE, hasP |-> TRUE],
       [pat |-> <<Mark, DirI, Mark, One({":"}), Mark, DirM, Mark, Mark, DirP>>,
        hasM |-> TRUE, hasP |-> TRUE],
       [pat |-> <<Mark, DirH, Mark, One({"."}), Mark, DirM, Mark>>,
        hasM |-> TRUE, hasP |-> FALSE],
       [pat |-> <<Mark, DirH, Mark>>,
        hasM |-> FALSE, hasP |-> FALSE],
       [pat |-> <<Mark, DirI, Mark, Plus(Space), Mark, DirP>>,
        hasM |-> FALSE, hasP |-> TRUE] >>

\* datetime.strptime(s, fmt): <<>> for ValueError (no match, or unconverted
\* data remains), else <<hour, minute>>.
Strptime(s, fmt) ==
    LET r == Match(fmt.pat, s, 1)
    IN IF r = <<>> \/ r[Len(r)] # Len(s) + 1 THEN <<>>
       ELSE LET h == DigitsVal(SubSeq(s, r[1], r[2] - 1))
                m == IF fmt.hasM THEN DigitsVal(SubSeq(s, r[3], r[4] - 1)) ELSE 0
                pm == fmt.hasP /\ s[r[Len(r) - 1]] \in {"p", "P"}
                hour == IF ~fmt.hasP THEN h
                        ELSE IF pm THEN (IF h # 12 THEN h + 12 ELSE h)
                        ELSE (IF h = 12 THEN 0 ELSE h)
            IN <<hour, m>>

\* The loop over the formats: the first that parses decides.
RECURSIVE TryFormats(_, _)
TryFormats(s, k) ==
    IF k > Len(formats) THEN <<>>
    ELSE LET t == Strptime(s, formats[k])
         IN IF t # <<>> THEN <<t[1] * 60 + t[2]>> ELSE TryFormats(s, k + 1)

\* parse_time_string(time_str): <<>> for None, else <<the minute of the base
\* date 2000-01-01 the datetime stands at>>.
parse_time_string(time_str) == TryFormats(Strip(time_str), 1)

-----------------------------------------------------------------------------
(* Time Parser: calculate_work_time *)

\* "not x" of an optional text: None and the empty text are false.
Falsy(x) == x = None \/ Len(x) = 0

\* re.match(r'(\d+(?:\.\d+)?)h?', text) and float(match.group(1)), in
\* minutes: <<>> when there is no match.
ExtraPattern ==
    <<Plus(Digit), Mark, Alt(<< <<One({"."}), Plus(Digit)>>, <<>> >>), Mark, Opt({"h"})>>
\* A faulty variant: the fraction of the number is not read, r'(\d+)h?'.
ExtraValue_NoFraction(text) ==
    LET r == Match(<<Plus(Digit), Mark, Opt({"h"})>>, text, 1)
    IN IF r = <<>> THEN <<>> ELSE <<DigitsVal(SubSeq(text, 1, r[1] - 1)) * 60>>

ExtraValue(text) ==
    LET r == Match(ExtraPattern, text, 1)
    IN IF r = <<>> THEN <<>>
       ELSE LET ip == DigitsVal(SubSeq(text, 1, r[1] - 1))
                fd == SubSeq(text, r[1] + 1, r[2] - 1)
            IN <<ip * 60 + (DigitsVal(fd) * 60) \div Pow10(Len(fd))>>

\* The extra hours added to work_hours (lines 95-103).
AddExtra(wh, extra) ==
    IF Falsy(extra) THEN wh
    ELSE LET clean == Strip(extra)
         IN IF Len(clean) = 0 THEN wh
            ELSE LET v == ExtraValue(clean)
                 IN IF v = <<>> THEN wh ELSE wh + v[1]

\* A faulty variant: every value is formatted with one decimal.
FormatHours_AlwaysDecimal(wh) ==
    LET t == wh \div 6
        r == wh % 6
        tenths == IF r < 3 THEN t
                  ELSE IF r > 3 THEN t + 1
                  ELSE IF t % 2 = 0 THEN t ELSE t + 1
    IN IntToStr(tenths \div 10) \o <<".", DigitChars[(tenths % 10) + 1], "h">>

\* f"{int(work_hours)}h" for whole hours, else f"{work_hours:.1f}h": the
\* tenths of an hour nearest to wh minutes, a tie going to the even tenth.
FormatHours(wh) ==
    IF wh % 60 = 0 THEN IntToStr(wh \div 60) \o <<"h">>
    ELSE LET t == wh \div 6
             r == wh % 6
             tenths == IF r < 3 THEN t
                       ELSE IF r > 3 THEN t + 1
                       ELSE IF t % 2 = 0 THEN t ELSE t + 1
         IN IntToStr(tenths \div 10) \o <<".", DigitChars[(tenths % 10) + 1], "h">>

\* A faulty variant: an end before the start is not moved to the next day.
Duration_NoNextDay(start_dt, end_dt) == end_dt - start_dt

\* end_dt - start_dt, end_dt moved to the next day when it lies before
\* start_dt (lines 84-89).
Duration(start_dt, end_dt) ==
    IF end_dt < start_dt THEN (end_dt + 24 * 60) - start_dt ELSE end_dt - start_dt

\* A faulty variant: the hour is not deducted.
BaseWorkHours_NoDeduction(base_hours) == Max2(0, base_hours)

\* max(0, base_hours - 1) (line 92).
BaseWorkHours(base_hours) == Max2(0, base_hours - 60)

\* A faulty variant: a missing end time is taken to be the start time.
calculate_work_time_EndOptional(start, end, extra) ==
    IF Falsy(start)
    THEN [result |-> <<"-">>, duration |-> <<>>, work_hours |-> <<>>]
    ELSE LET start_dt == parse_time_string(start)
             end_dt == IF Falsy(end) THEN start_dt ELSE parse_time_string(end)
         IN IF start_dt = <<>> \/ end_dt = <<>>
            THEN [result |-> <<"-">>, duration |-> <<>>, work_hours |-> <<>>]
            ELSE LET base_hours == Duration(start_dt[1], end_dt[1])
                     wh == AddExtra(BaseWorkHours(base_hours), extra)
                 IN [result |-> FormatHours(wh), duration |-> <<base_hours>>,
                     work_hours |-> <<wh>>]

\* calculate_work_time: the returned text, with the locals base_hours and
\* work_hours as they stand at the return (<<>> while unset).
calculate_work_time(start, end, extra) ==
    IF Falsy(start) \/ Falsy(end)
    THEN [result |-> <<"-">>, duration |-> <<>>, work_hours |-> <<>>]
    ELSE LET start_dt == parse_time_string(start)
             end_dt == parse_time_string(end)
         IN IF start_dt = <<>> \/ end_dt = <<>>
            THEN [result |-> <<"-">>, duration |-> <<>>, work_hours |-> <<>>]
            ELSE LET base_hours == Duration(start_dt[1], end_dt[1])
                     wh == AddExtra(BaseWorkHours(base_hours), extra)
                 IN [result |-> FormatHours(wh), duration |-> <<base_hours>>,
                     work_hours |-> <<wh>>]

-----------------------------------------------------------------------------
(* The texts calculate_work_time is called with *)

TwoDigits(n) == <<DigitChars[(n \div 10) + 1], DigitChars[(n % 10) + 1]>>
HHMM(h, m) == TwoDigits(h) \o <<":">> \o TwoDigits(m)

ClockHours == {0, 2, 9, 10, 17, 22}
ClockMinutes == {0, 10, 30, 45}

\* Texts in the other formats parse_time_string accepts.
OtherTimes ==
    { <<"9", ":", "0", "0", " ", "A", "M">>,
      <<"5", ":", "3", "0", " ", "P", "M">>,
      <<"5", ":", "3", "0", "p", "m">>,
      <<"1", "2", ":", "0", "0", " ", "A", "M">>,
      <<"1", "2", " ", "p", "m">>,
      <<"0", "9", ".", "3", "0">>,
      <<"1", "7">>,
      <<"9", " ", "A", "M">>,
      <<" ", "0", "9", ":", "0", "0", " ">> }

\* A missing time and texts parse_time_string refuses.
BadTimes ==
    { None, <<>>, <<" ">>,
      <<"2", "4", ":", "0", "0">>,
      <<"0", "9", ":", "6", "0">>,
      <<"1", "3", ":", "0", "0", " ", "P", "M">>,
      <<"9", "h">>,
      <<"a", "b", "c">> }

TimeTexts == {HHMM(h, m) : h \in ClockHours, m \in ClockMinutes} \cup OtherTimes \cup BadTimes

ExtraTexts ==
    { None, <<>>, <<" ">>,
      <<"1", ".", "5">>,
      <<"2", "h">>,
      <<"0", ".", "5", "h">>,
      <<"0", ".", "2", "5">>,
      <<" ", "1", ".", "5", " ">>,
      <<"2", "h", "3", "0">>,
      <<".", "5">>,
      <<"a", "b", "c">> }

NoSections == [k \in {"accomplished", "blockers", "learned", "improve"} |-> <<>>]
NoTimeData == [k \in {"start_time", "end_time", "extra_hours"} |-> None]

-----------------------------------------------------------------------------
(* calculate_work_time on every triple of the texts above *)

InitWorkTime ==
    /\ pc = "start"
    /\ start_time \in TimeTexts
    /\ end_time \in TimeTexts
    /\ extra_hours \in ExtraTexts
    /\ duration = <<>>
    /\ work_hours = <<>>
    /\ work_time = None
    /\ content = <<>>
    /\ section_content = NoSections
    /\ sections = NoSections
    /\ time_section = <<>>
    /\ time_data = NoTimeData
    /\ NoItems /\ NoAggregate /\ NoDashboard /\ NoRollups /\ NoCommand

CalculateWorkTime ==
    /\ pc = "start"
    /\ LET r == calculate_work_time(start_time, end_time, extra_hours)
       IN /\ work_time' = r.result
          /\ duration' = r.duration
          /\ work_hours' = r.work_hours
    /\ pc' = "done"
    /\ UNCHANGED <<start_time, end_time, extra_hours, docVars, itemVars, aggVars, dashVars, rollVars, cmdVars>>

NextWorkTime == CalculateWorkTime

SpecWorkTime == InitWorkTime /\ [][NextWorkTime]_vars

-----------------------------------------------------------------------------
(* Section Extractor: parse_entry_sections, parse_section_entries *)

section_keys == <<"accomplished", "blockers", "learned", "improve">>
Keys == {section_keys[k] : k \in 1..Len(section_keys)}

\* The emoji of the patterns (one token each) and an emoji that is in none.
Emoji ==
    [accomplished |-> "<check mark>", blockers |-> "<thinking face>",
     learned |-> "<books>", improve |-> "<rocket>"]
ClockEmoji == "<alarm clock>"
OtherEmoji == "<party popper>"

\* The label of each pattern; under re.IGNORECASE it matches in either case.
LabelText ==
    [accomplished |-> "What I accomplished",
     blockers |-> "What didn't go well / blockers",
     learned |-> "What I learned",
     improve |-> "What to improve"]
LabelLower ==
    [accomplished |-> "what i accomplished",
     blockers |-> "what didn't go well / blockers",
     learned |-> "what i learned",
     improve |-> "what to improve"]
Label == [key \in {"accomplished", "blockers", "learned", "improve"} |->
             {LabelText[key], LabelLower[key]}]

\* section_patterns[key]: ##\s*<emoji>\s*<label>
section_patterns(key) ==
    <<One({"#"}), One({"#"}), Star(Space), One({Emoji[key]}), Star(Space), One(Label[key])>>

\* str.split('\n')
RECURSIVE SplitLines(_)
SplitLines(s) ==
    LET nl == {i \in 1..Len(s) : s[i] = "\n"}
    IN IF nl = {} THEN <<s>>
       ELSE LET i == CHOOSE n \in nl : \A m \in nl : n <= m
            IN <<SubSeq(s, 1, i - 1)>> \o SplitLines(SubSeq(s, i + 1, Len(s)))

\* re.sub(r'^\s*[-*+]\s*', '', line) and re.sub(r'^\s*\d+\.\s*', '', line)
RemovePrefix(pat, line) ==
    LET r == Match(pat, line, 1)
    IN IF r = <<>> THEN line ELSE SubSeq(line, r[1], Len(line))
StripBullet(line) == RemovePrefix(<<Star(Space), One({"-", "*", "+"}), Star(Space)>>, line)
StripNumber(line) == RemovePrefix(<<Star(Space), Plus(Digit), One({"."}), Star(Space)>>, line)

\* re.search(r'\[(.*?)\]', line): <<>> when there is no match, else the
\* positions of the "[" and of the "]" closing it.
CommentSpan(line) ==
    LET opens == {i \in 1..Len(line) : line[i] = "["}
    IN IF opens = {} THEN <<>>
       ELSE LET i == CHOOSE n \in opens : \A m \in opens : n <= m
                closes == {j \in (i + 1)..Len(line) : line[j] = "]" /\
                              \A k \in (i + 1)..(j - 1) : line[k] # "\n"}
            IN IF closes = {} THEN <<>>
               ELSE <<i, CHOOSE n \in closes : \A m \in closes : n <= m>>

\* str.replace(old, ''): every occurrence of old is removed, left to right.
RECURSIVE RemoveAll(_, _)
RemoveAll(s, old) ==
    IF Len(s) < Len(old) THEN s
    ELSE IF SubSeq(s, 1, Len(old)) = old THEN RemoveAll(SubSeq(s, Len(old) + 1, Len(s)), old)
    ELSE <<s[1]>> \o RemoveAll(Tail(s), old)

\* A faulty variant: a line that begins with "#" is not skipped.
LineEntries_KeepHeadings(raw) ==
    LET line == Strip(raw)
    IN IF Len(line) = 0 THEN <<>>
       ELSE LET item == StripNumber(StripBullet(line))
            IN IF Len(item) = 0 THEN <<>>
               ELSE LET c == CommentSpan(item)
                        comment == IF c = <<>> THEN <<>> ELSE SubSeq(item, c[1] + 1, c[2] - 1)
                        entry_text == IF c = <<>> THEN item
                                      ELSE Strip(RemoveAll(item, SubSeq(item, c[1], c[2])))
                    IN IF Len(entry_text) = 0 THEN <<>> ELSE << <<entry_text, comment>> >>

\* The body of the loop of parse_section_entries: the entries one line adds.
LineEntries(raw) ==
    LET line == Strip(raw)
    IN IF Len(line) = 0 \/ line[1] = "#" THEN <<>>
       ELSE LET item == StripNumber(StripBullet(line))
            IN IF Len(item) = 0 THEN <<>>
               ELSE LET c == CommentSpan(item)
                        comment == IF c = <<>> THEN <<>> ELSE SubSeq(item, c[1] + 1, c[2] - 1)
                        entry_text == IF c = <<>> THEN item
                                      ELSE Strip(RemoveAll(item, SubSeq(item, c[1], c[2])))
                    IN IF Len(entry_text) = 0 THEN <<>> ELSE << <<entry_text, comment>> >>

RECURSIVE EntriesOfLines(_)
EntriesOfLines(lines) ==
    IF Len(lines) = 0 THEN <<>>
    ELSE LineEntries(Head(lines)) \o EntriesOfLines(Tail(lines))

\* parse_section_entries(section_content): the list of (entry_text, comment).
parse_section_entries(body) == EntriesOfLines(SplitLines(body))

\* A faulty variant: the heading of the key itself ends the section as well.
RECURSIVE NextSectionPos_OwnHeading(_, _, _, _)
NextSectionPos_OwnHeading(content_, key, start_pos, k) ==
    IF k > Len(section_keys) THEN Len(content_) + 1
    ELSE LET later == NextSectionPos_OwnHeading(content_, key, start_pos, k + 1)
             next_match == SearchFrom(section_patterns(section_keys[k]), content_, start_pos)
         IN IF next_match # <<>> THEN Min2(later, next_match[1]) ELSE later

\* A faulty variant: only the heading that follows in the template ends the
\* section.
RECURSIVE NextSectionPos_TemplateNext(_, _, _, _)
NextSectionPos_TemplateNext(content_, key, start_pos, k) ==
    IF k > Len(section_keys) THEN Len(content_) + 1
    ELSE LET later == NextSectionPos_TemplateNext(content_, key, start_pos, k + 1)
             next_match == SearchFrom(section_patterns(section_keys[k]), content_, start_pos)
         IN IF k > 1 /\ section_keys[k - 1] = key /\ next_match # <<>>
            THEN Min2(later, next_match[1])
            ELSE later

\* Lines 181-187: the position the section that starts at start_pos ends
\* before: the nearest match of another pattern in content[start_pos:], else
\* the position after the content.
RECURSIVE NextSectionPos(_, _, _, _)
NextSectionPos(content_, key, start_pos, k) ==
    IF k > Len(section_keys) THEN Len(content_) + 1
    ELSE LET later == NextSectionPos(content_, key, start_pos, k + 1)
             next_match == SearchFrom(section_patterns(section_keys[k]), content_, start_pos)
         IN IF section_keys[k] # key /\ next_match # <<>>
            THEN Min2(later, next_match[1])
            ELSE later

\* Lines 176-190 for one key: <<>> when the heading is not found, else
\* <<content[start_pos:next_section_pos]>>.
SectionSlice(content_, key) ==
    LET match == Search(section_patterns(key), content_)
    IN IF match = <<>> THEN <<>>
       ELSE LET start_pos == match[2]
            IN <<SubSeq(content_, start_pos, NextSectionPos(content_, key, start_pos, 1) - 1)>>

\* The local section_content of each key (lines 189-190); the empty text for
\* a key whose heading is not found.
SectionContent(content_) ==
    [key \in Keys |->
        LET sl == SectionSlice(content_, key)
        IN IF sl = <<>> THEN <<>> ELSE Strip(sl[1])]

\* parse_entry_sections(content): the dictionary of the entries of each key.
parse_entry_sections(content_) ==
    [key \in Keys |->
        IF SectionSlice(content_, key) = <<>> THEN <<>>
        ELSE parse_section_entries(SectionContent(content_)[key])]

-----------------------------------------------------------------------------
(* Section Extractor: parse_time_tracking *)

\* Every token of the documents drawn below; [^\n\r] is taken in it.
Tokens ==
    Digit \cup Space \cup
    {"#", "-", "*", "+", ":", ".", "[", "]", "a", "b", "c", "d", "x", "h", "A", "M", "P"} \cup
    {Emoji[k] : k \in Keys} \cup {ClockEmoji, OtherEmoji} \cup
    UNION {Label[k] : k \in Keys} \cup
    {"Time Tracking", "Start time", "End time", "Extra hours", "Notes"}
NotNewline == Tokens \ {"\n", "\r"}

\* ##\s*<alarm clock>\s*Time Tracking
TimeHeading == <<One({"#"}), One({"#"}), Star(Space), One({ClockEmoji}), Star(Space),
                 One({"Time Tracking"})>>

\* A faulty variant: the group ends before any "#".
RECURSIVE TimeSectionEnd_AnyHash(_, _)
TimeSectionEnd_AnyHash(s, from) ==
    IF from > Len(s) THEN from
    ELSE IF from = Len(s) /\ s[from] = "\n" THEN from
    ELSE IF s[from] = "#" THEN from
    ELSE TimeSectionEnd_AnyHash(s, from + 1)

\* (.*?)(?=##|$) with re.DOTALL from position from: the position the group
\* ends before, the first at which "##" or the end of the text (or the
\* newline that ends the text) stands.
RECURSIVE TimeSectionEnd(_, _)
TimeSectionEnd(s, from) ==
    IF from > Len(s) THEN from
    ELSE IF from = Len(s) /\ s[from] = "\n" THEN from
    ELSE IF from < Len(s) /\ s[from] = "#" /\ s[from + 1] = "#" THEN from
    ELSE TimeSectionEnd(s, from + 1)

\* Lines 28-32: <<>> when the heading is not found, else <<time_section>>.
TimeSection(content_) ==
    LET m == Search(TimeHeading, content_)
    IN IF m = <<>> THEN <<>>
       ELSE <<SubSeq(content_, m[2], TimeSectionEnd(content_, m[2]) - 1)>>

\* <label>\*?\*?:\s*([^\n\r]+)
FieldPattern(label) ==
    <<One({label}), Opt({"*"}), Opt({"*"}), One({":"}), Star(Space), Mark, Plus(NotNewline)>>

\* Lines 35-39 (and 42-46, 49-53): the value of one field, None when the
\* pattern is not found or the stripped group is empty.
FieldValue(section, label) ==
    LET m == Search(FieldPattern(label), section)
    IN IF m = <<>> THEN None
       ELSE LET v == Strip(SubSeq(section, m[2], m[3] - 1))
            IN IF Len(v) = 0 THEN None ELSE v

\* parse_time_tracking(content): the dictionary of the three fields.
parse_time_tracking(content_) ==
    LET ts == TimeSection(content_)
    IN IF ts = <<>> THEN NoTimeData
       ELSE [start_time |-> FieldValue(ts[1], "Start time"),
             end_time |-> FieldValue(ts[1], "End time"),
             extra_hours |-> FieldValue(ts[1], "Extra hours")]

-----------------------------------------------------------------------------
(* The documents parse_entry_sections is called with *)

\* The most item lines under one heading.
MaxItems == 1

ItemLetter == [accomplished |-> "a", blockers |-> "b", learned |-> "c", improve |-> "d"]

\* The j-th item line under the heading of key: "- a", "- a [x]", ...
ItemLine(key, j) ==
    IF j % 2 = 1 THEN <<"-", " ", ItemLetter[key], "\n">>
    ELSE <<"-", " ", ItemLetter[key], " ", "[", "x", "]", "\n">>

RECURSIVE ItemLines(_, _)
ItemLines(key, n) == IF n = 0 THEN <<>> ELSE ItemLines(key, n - 1) \o ItemLine(key, n)

\* The ways a heading line is written: as the template writes it, in lower
\* case and without spaces, one level deeper, and with another emoji.
HeadingKinds == {"plain", "lower", "deep", "emoji"}
HeadingLine(key, kind) ==
    LET upper == LabelText[key]
        lower == LabelLower[key]
    IN CASE kind = "plain" -> <<"#", "#", " ", Emoji[key], " ", upper, "\n">>
         [] kind = "lower" -> <<"#", "#", Emoji[key], lower, "\n">>
         [] kind = "deep" -> <<"#", "#", "#", " ", Emoji[key], " ", upper, "\n">>
         [] kind = "emoji" -> <<"#", "#", " ", OtherEmoji, " ", upper, "\n">>

\* A filled Time Tracking block, as the template lays it out.
TimeBlock ==
    <<"#", "#", " ", ClockEmoji, " ", "Time Tracking", "\n",
      "-", " ", "*", "*", "Start time", "*", "*", ":", " ", "0", "9", ":", "0", "0", "\n">>

\* The orders of the four sections: every permutation of the keys.
Orders == {o \in [1..4 -> Keys] : \A i, j \in 1..4 : o[i] = o[j] => i = j}
TemplateOrder == [i \in 1..4 |-> section_keys[i]]

\* A document: the Time Tracking block first or last (or absent), the four
\* sections in the given order with count[key] item lines each, the heading
\* of the key odd written the way kind says, and, when again is true, a
\* second section of the key odd at the end.
RECURSIVE SectionsText(_, _, _, _, _)
SectionsText(order, count, odd, kind, i) ==
    IF i > 4 THEN <<>>
    ELSE HeadingLine(order[i], IF order[i] = odd THEN kind ELSE "plain")
         \o ItemLines(order[i], count[order[i]])
         \o SectionsText(order, count, odd, kind, i + 1)
Document(order, count, odd, kind, again, place) ==
    (IF place = "first" THEN TimeBlock ELSE <<>>)
    \o SectionsText(order, count, odd, kind, 1)
    \o (IF again THEN HeadingLine(odd, "plain") \o <<"-", " ", "x", "\n">> ELSE <<>>)
    \o (IF place = "last" THEN TimeBlock ELSE <<>>)

SomeOrders ==
    { TemplateOrder,
      [i \in 1..4 |-> section_keys[5 - i]],
      <<"learned", "accomplished", "improve", "blockers">> }

\* The numbers of item lines: one number for the key odd, one for the others.
Counts(odd) ==
    { [key \in Keys |-> IF key = odd THEN n ELSE m] : n \in 0..MaxItems, m \in 0..MaxItems }

\* The documents of SpecSections: few orders, every way of writing a heading.
SectionDocuments ==
    UNION { { Document(o, c, odd, kind, again, place) :
                o \in SomeOrders, c \in Counts(odd),
                kind \in HeadingKinds, again \in BOOLEAN, place \in {"first", "last"} } :
            odd \in Keys }

\* The documents of SpecReorder: every order, headings as the parser knows them.
ReorderDocuments ==
    UNION { { Document(o, c, odd, kind, FALSE, place) :
                o \in Orders, c \in Counts(odd),
                kind \in {"plain", "lower"}, place \in {"first", "last"} } :
            odd \in Keys }

-----------------------------------------------------------------------------
(* parse_entry_sections on every document above *)

InitDocument(documents) ==
    /\ pc = "start"
    /\ content \in documents
    /\ section_content = NoSections
    /\ sections = NoSections
    /\ time_section = <<>>
    /\ time_data = NoTimeData
    /\ start_time = None
    /\ end_time = None
    /\ extra_hours = None
    /\ duration = <<>>
    /\ work_hours = <<>>
    /\ work_time = None
    /\ NoItems /\ NoAggregate /\ NoDashboard /\ NoRollups /\ NoCommand

ParseEntrySections ==
    /\ pc = "start"
    /\ section_content' = SectionContent(content)
    /\ sections' = parse_entry_sections(content)
    /\ pc' = "done"
    /\ UNCHANGED <<content, time_section, time_data, calcVars, itemVars, aggVars, dashVars, rollVars, cmdVars>>

InitSections == InitDocument(SectionDocuments)
NextSections == ParseEntrySections
SpecSections == InitSections /\ [][NextSections]_vars

InitReorder == InitDocument(ReorderDocuments)
NextReorder == ParseEntrySections
SpecReorder == InitReorder /\ [][NextReorder]_vars

-----------------------------------------------------------------------------
(* The documents parse_time_tracking is called with *)

TimeHeadingLine == <<"#", "#", " ", ClockEmoji, " ", "Time Tracking", "\n">>

\* A labelled line as the template writes it, with value after the colon.
FieldLine(label, value) ==
    <<"-", " ", "*", "*", label, "*", "*", ":", " ">> \o value \o <<"\n">>

FieldLabels == <<"Start time", "End time", "Extra hours">>
FieldKeys == <<"start_time", "end_time", "extra_hours">>

StartValues == {<<>>, <<" ">>, HHMM(9, 0)}
EndValues == {<<>>, <<" ">>, HHMM(17, 0)}
ExtraValues == {<<>>, <<" ">>, <<"1", ".", "5">>}

\* A line between the labelled lines: a level-1 heading, a level-3 heading,
\* an item with "##" inside, or nothing.
Breakers ==
    [none |-> <<>>,
     h1 |-> <<"#", " ", "Notes", "\n">>,
     h3 |-> <<"#", "#", "#", " ", "Notes", "\n">>,
     inline |-> <<"-", " ", "a", " ", "#", "#", " ", "b", "\n">>]

\* What follows the block: nothing, or the first section of the template.
Tails ==
    [none |-> <<>>,
     section |-> <<"\n">> \o HeadingLine("accomplished", "plain") \o ItemLine("accomplished", 1)]

\* A document: the Time Tracking heading, the three labelled lines with the
\* given values, the breaker before the at-th of them (after them all when
\* at = 4), and the tail.
TimeDocument(v, breaker, at, tail) ==
    LET brk(i) == IF at = i THEN Breakers[breaker] ELSE <<>>
    IN TimeHeadingLine \o <<"\n">>
       \o brk(1) \o FieldLine(FieldLabels[1], v[1])
       \o brk(2) \o FieldLine(FieldLabels[2], v[2])
       \o brk(3) \o FieldLine(FieldLabels[3], v[3])
       \o brk(4) \o Tails[tail]

TimeDocuments ==
    { TimeDocument(<<vs, ve, vx>>, breaker, at, tail) :
        vs \in StartValues, ve \in EndValues, vx \in ExtraValues,
        breaker \in {"none", "h1", "h3", "inline"}, at \in 1..4,
        tail \in {"none", "section"} }

-----------------------------------------------------------------------------
(* parse_time_tracking, then calculate_work_time, on every document above *)

InitTimeTracking == InitDocument(TimeDocuments)

ParseTimeTracking ==
    /\ pc = "start"
    /\ time_section' = (LET ts == TimeSection(content) IN IF ts = <<>> THEN <<>> ELSE ts[1])
    /\ time_data' = parse_time_tracking(content)
    /\ pc' = "parsed"
    /\ UNCHANGED <<content, section_content, sections, calcVars, itemVars, aggVars, dashVars, rollVars, cmdVars>>

\* Lines 288-292 of parse_journal_entries: the worked hours of the document.
WorkTimeOfDocument ==
    /\ pc = "parsed"
    /\ start_time' = time_data["start_time"]
    /\ end_time' = time_data["end_time"]
    /\ extra_hours' = time_data["extra_hours"]
    /\ LET r == calculate_work_time(time_data["start_time"], time_data["end_time"],
                                    time_data["extra_hours"])
       IN /\ work_time' = r.result
          /\ duration' = r.duration
          /\ work_hours' = r.work_hours
    /\ pc' = "done"
    /\ UNCHANGED <<docVars, itemVars, aggVars, dashVars, rollVars, cmdVars>>

NextTimeTracking == ParseTimeTracking \/ WorkTimeOfDocument
SpecTimeTracking == InitTimeTracking /\ [][NextTimeTracking]_vars

-----------------------------------------------------------------------------
(* The section bodies parse_section_entries is called with *)

MaxLines == 2

\* The lines a body is made of.  kind tells what the line is: "blank",
\* "hash" (its first non-blank character is "#"), "marker" (a list marker and
\* nothing else), "comment" (a list marker and bracketed text that the comment
\* removal takes away whole) or "item".  text and comment are the item text
\* and the comment of the line when only its first bracketed span is taken
\* out of it.
LineShapes ==
    { [line |-> <<>>, kind |-> "blank", text |-> <<>>, comment |-> <<>>],
      [line |-> <<" ", "\t">>, kind |-> "blank", text |-> <<>>, comment |-> <<>>],
      [line |-> <<"#", " ", "h">>, kind |-> "hash", text |-> <<>>, comment |-> <<>>],
      [line |-> <<" ", "#", "#", " ", "h">>, kind |-> "hash", text |-> <<>>, comment |-> <<>>],
      [line |-> <<"#", "h">>, kind |-> "hash", text |-> <<>>, comment |-> <<>>],
      [line |-> <<"-">>, kind |-> "marker", text |-> <<>>, comment |-> <<>>],
      [line |-> <<"1", ".", " ">>, kind |-> "marker", text |-> <<>>, comment |-> <<>>],
      [line |-> <<"-", " ", "a">>, kind |-> "item", text |-> <<"a">>, comment |-> <<>>],
      [line |-> <<"*", " ", "b", " ">>, kind |-> "item", text |-> <<"b">>, comment |-> <<>>],
      [line |-> <<" ", "+", " ", "c", " ", "d">>, kind |-> "item",
       text |-> <<"c", " ", "d">>, comment |-> <<>>],
      [line |-> <<"2", ".", " ", "a">>, kind |-> "item", text |-> <<"a">>, comment |-> <<>>],
      [line |-> <<"-", " ", "1", ".", " ", "b">>, kind |-> "item",
       text |-> <<"b">>, comment |-> <<>>],
      [line |-> <<"c">>, kind |-> "item", text |-> <<"c">>, comment |-> <<>>],
      [line |-> <<"-", "d">>, kind |-> "item", text |-> <<"d">>, comment |-> <<>>],
      [line |-> <<"-", " ", "a", " ", "[", "b">>, kind |-> "item",
       text |-> <<"a", " ", "[", "b">>, comment |-> <<>>],
      [line |-> <<"-", " ", "a", " ", "[", "x", "]">>, kind |-> "item",
       text |-> <<"a">>, comment |-> <<"x">>],
      [line |-> <<"-", " ", "[", "x", " ", "y", "]", " ", "b">>, kind |-> "item",
       text |-> <<"b">>, comment |-> <<"x", " ", "y">>],
      [line |-> <<"-", " ", "[", "]", " ", "c">>, kind |-> "item",
       text |-> <<"c">>, comment |-> <<>>],
      [line |-> <<"-", " ", "[", "x", "]">>, kind |-> "comment",
       text |-> <<>>, comment |-> <<"x">>],
      [line |-> <<"-", " ", "a", " ", "[", "x", "]", " ", "b", " ", "[", "y", "]">>,
       kind |-> "item",
       text |-> <<"a", " ", " ", "b", " ", "[", "y", "]">>, comment |-> <<"x">>],
      [line |-> <<"-", " ", "a", " ", "[", "x", "]", " ", "b", " ", "[", "x", "]">>,
       kind |-> "item",
       text |-> <<"a", " ", " ", "b", " ", "[", "x", "]">>, comment |-> <<"x">>],
      [line |-> <<"-", " ", "[", "x", "]", " ", "[", "x", "]">>, kind |-> "comment",
       text |-> <<"[", "x", "]">>, comment |-> <<"x">>] }

\* '\n'.join(lines)
RECURSIVE JoinLines(_)
JoinLines(lines) ==
    IF Len(lines) = 0 THEN <<>>
    ELSE IF Len(lines) = 1 THEN lines[1]
    ELSE lines[1] \o <<"\n">> \o JoinLines(Tail(lines))

SectionBodies ==
    { JoinLines([i \in 1..Len(shapes) |-> shapes[i].line]) :
        shapes \in UNION {[1..m -> LineShapes] : m \in 0..MaxLines} }

-----------------------------------------------------------------------------
(* parse_section_entries on every body above *)

InitEntries ==
    /\ pc = "start"
    /\ section_body \in SectionBodies
    /\ entries = <<>>
    /\ content = <<>>
    /\ section_content = NoSections
    /\ sections = NoSections
    /\ time_section = <<>>
    /\ time_data = NoTimeData
    /\ start_time = None
    /\ end_time = None
    /\ extra_hours = None
    /\ duration = <<>>
    /\ work_hours = <<>>
    /\ work_time = None
    /\ NoAggregate /\ NoDashboard /\ NoRollups /\ NoCommand

ParseSectionEntries ==
    /\ pc = "start"
    /\ entries' = parse_section_entries(section_body)
    /\ pc' = "done"
    /\ UNCHANGED <<section_body, docVars, calcVars, aggVars, dashVars, rollVars, cmdVars>>

NextEntries == ParseSectionEntries
SpecEntries == InitEntries /\ [][NextEntries]_vars

-----------------------------------------------------------------------------
(* Aggregator: get_date_from_filename, parse_journal_entries *)

\* The code points of the characters of file names and date keys: Python
\* compares strings, and paths of one directory, by them.
CharCode ==
    [c \in {"-", ".", "0", "1", "2", "3", "4", "5", "6", "7", "8", "9",
            "a", "b", "d", "e", "m", "n", "o", "s", "t"} |->
        CASE c = "-" -> 45 [] c = "." -> 46
          [] c \in Digit -> 48 + DigitVal(c)
          [] c = "a" -> 97 [] c = "b" -> 98 [] c = "d" -> 100 [] c = "e" -> 101
          [] c = "m" -> 109 [] c = "n" -> 110 [] c = "o" -> 111
          [] c = "s" -> 115 [] c = "t" -> 116]

\* a < b for two strings
RECURSIVE StrLess(_, _)
StrLess(a, b) ==
    IF Len(b) = 0 THEN FALSE
    ELSE IF Len(a) = 0 THEN TRUE
    ELSE IF a[1] # b[1] THEN CharCode[a[1]] < CharCode[b[1]]
    ELSE StrLess(Tail(a), Tail(b))

\* A faulty variant: the strings in descending order.
RECURSIVE SortedStrings_Descending(_)
SortedStrings_Descending(set) ==
    IF set = {} THEN <<>>
    ELSE LET greatest == CHOOSE a \in set : \A b \in set \ {a} : StrLess(b, a)
         IN <<greatest>> \o SortedStrings_Descending(set \ {greatest})

\* sorted(strings)
RECURSIVE SortedStrings(_)
SortedStrings(set) ==
    IF set = {} THEN <<>>
    ELSE LET least == CHOOSE a \in set : \A b \in set \ {a} : StrLess(a, b)
         IN <<least>> \o SortedStrings(set \ {least})

\* sorted(strings, reverse=True)
Reverse(seq) == [i \in 1..Len(seq) |-> seq[Len(seq) + 1 - i]]

\* (\d{4}-\d{2}-\d{2})
DatePattern ==
    <<One(Digit), One(Digit), One(Digit), One(Digit), One({"-"}),
      One(Digit), One(Digit), One({"-"}), One(Digit), One(Digit)>>

\* get_date_from_filename(filename)
get_date_from_filename(filename) ==
    LET date_match == Search(DatePattern, filename)
    IN IF date_match # <<>> THEN SubSeq(filename, date_match[1], date_match[2] - 1)
       ELSE RemoveAll(filename, <<".", "m", "d">>)

\* The dictionary parse_journal_entries starts from.  time_tracking is a
\* dictionary: its (key, value) pairs in the order the keys were first set.
EmptyAggregate ==
    [accomplished |-> <<>>, blockers |-> <<>>, learned |-> <<>>, improve |-> <<>>,
     time_tracking |-> <<>>]

\* A faulty variant: the value of a key already there is kept.
DictSet_KeepFirst(d, key, value) ==
    IF \E i \in 1..Len(d) : d[i][1] = key THEN d ELSE Append(d, <<key, value>>)

\* d[key] = value on a dictionary: the value of a key already there is
\* replaced in place, a new key goes to the end.
DictSet(d, key, value) ==
    IF \E i \in 1..Len(d) : d[i][1] = key
    THEN [i \in 1..Len(d) |-> IF d[i][1] = key THEN <<key, value>> ELSE d[i]]
    ELSE Append(d, <<key, value>>)
DictKeys(d) == {d[i][1] : i \in 1..Len(d)}
DictGet(d, key, default) ==
    IF key \in DictKeys(d) THEN (CHOOSE kv \in {d[i] : i \in 1..Len(d)} : kv[1] = key)[2]
    ELSE default

\* [(date_str, entry_text, comment) for entry_text, comment in entries]
Dated(date_str, items) ==
    [i \in 1..Len(items) |-> <<date_str, items[i][1], items[i][2]>>]

-----------------------------------------------------------------------------
(* Dashboard: dates *)

\* The regular expressions datetime.strptime builds for %m and %d.
DirMonth == Alt(<< <<One({"1"}), One({"0", "1", "2"})>>,
                   <<One({"0"}), One(Digit \ {"0"})>>,
                   <<One(Digit \ {"0"})>> >>)
DirDay == Alt(<< <<One({"3"}), One({"0", "1"})>>,
                 <<One({"1", "2"}), One(Digit)>>,
                 <<One({"0"}), One(Digit \ {"0"})>>,
                 <<One(Digit \ {"0"})>>,
                 <<One({" "}), One(Digit \ {"0"})>> >>)

\* "%Y-%m-%d": the year lies between marks 1 and 2, the month between marks
\* 3 and 4, the day between marks 5 and 6.
DateFormat ==
    <<Mark, One(Digit), One(Digit), One(Digit), One(Digit), Mark, One({"-"}),
      Mark, DirMonth, Mark, One({"-"}), Mark, DirDay, Mark>>

\* datetime.date: leap years, the days of a month, and the proleptic
\* Gregorian ordinal of a day (1 is 0001-01-01).
IsLeap(y) == y % 4 = 0 /\ (y % 100 # 0 \/ y % 400 = 0)
DaysInMonth(y, m) ==
    IF m = 2 THEN (IF IsLeap(y) THEN 29 ELSE 28)
    ELSE IF m \in {4, 6, 9, 11} THEN 30 ELSE 31
DaysBeforeYear(y) == (y - 1) * 365 + (y - 1) \div 4 - (y - 1) \div 100 + (y - 1) \div 400
RECURSIVE DaysBeforeMonth(_, _)
DaysBeforeMonth(y, m) ==
    IF m = 1 THEN 0 ELSE DaysBeforeMonth(y, m - 1) + DaysInMonth(y, m - 1)
Ordinal(y, m, d) == DaysBeforeYear(y) + DaysBeforeMonth(y, m) + d

\* datetime.strptime(text, "%Y-%m-%d"): <<>> when it raises ValueError (the
\* text does not match, text is left over, or there is no such day), else
\* the ordinal of the day in a tuple.
StrptimeDate(text) ==
    LET Date(y, m, d) ==
            IF y < 1 \/ d > DaysInMonth(y, m) THEN <<>> ELSE <<Ordinal(y, m, d)>>
        Matched(r) ==
            IF r = <<>> \/ r[Len(r)] # Len(text) + 1 THEN <<>>
            ELSE Date(DigitsVal(SubSeq(text, r[1], r[2] - 1)),
                      DigitsVal(SubSeq(text, r[3], r[4] - 1)),
                      DigitsVal(Strip(SubSeq(text, r[5], r[6] - 1))))
    IN Matched(Match(DateFormat, text, 1))

\* date.weekday(): Monday is 0.
Weekday(ordinal) == (ordinal + 6) % 7

\* The years of the dates written by strftime.
Years == 2024..2026

\* date.fromordinal(n).strftime("%Y-%m-%d")
FourDigits(n) == TwoDigits(n \div 100) \o TwoDigits(n % 100)
DateText(ordinal) ==
    LET Written(y, m, d) ==
            FourDigits(y) \o <<"-">> \o TwoDigits(m) \o <<"-">> \o TwoDigits(d)
        InMonth(y, m) == Written(y, m, ordinal - DaysBeforeYear(y) - DaysBeforeMonth(y, m))
        InYear(y) ==
            InMonth(y, CHOOSE m \in 1..12 :
                           /\ DaysBeforeMonth(y, m) < ordinal - DaysBeforeYear(y)
                           /\ ordinal - DaysBeforeYear(y)
                                  <= DaysBeforeMonth(y, m) + DaysInMonth(y, m))
    IN InYear(CHOOSE y \in Years :
                  DaysBeforeYear(y) < ordinal /\ ordinal <= DaysBeforeYear(y + 1))

-----------------------------------------------------------------------------
(* Dashboard: calculate_current_streak, generate_table_rows_with_breaks *)

\* A faulty variant: the count goes on after a gap.
RECURSIVE StreakFrom_NoBreak(_, _, _)
StreakFrom_NoBreak(dates, i, streak) ==
    IF i > Len(dates) THEN [raised |-> FALSE, value |-> streak]
    ELSE LET current_date == StrptimeDate(dates[i])
             previous_date == StrptimeDate(dates[i - 1])
         IN IF current_date = <<>> \/ previous_date = <<>> \/ previous_date = <<1>>
            THEN [raised |-> TRUE, value |-> streak]
            ELSE IF current_date[1] = previous_date[1] - 1
            THEN StreakFrom_NoBreak(dates, i + 1, streak + 1)
            ELSE StreakFrom_NoBreak(dates, i + 1, streak)

\* The loop of calculate_current_streak from index i (counted from 1) on.
\* strptime raises ValueError on a text that is no date, and the day before
\* 0001-01-01 raises OverflowError; nothing catches them.
RECURSIVE StreakFrom(_, _, _)
StreakFrom(dates, i, streak) ==
    IF i > Len(dates) THEN [raised |-> FALSE, value |-> streak]
    ELSE LET current_date == StrptimeDate(dates[i])
             previous_date == StrptimeDate(dates[i - 1])
         IN IF current_date = <<>> \/ previous_date = <<>> \/ previous_date = <<1>>
            THEN [raised |-> TRUE, value |-> streak]
            ELSE IF current_date[1] = previous_date[1] - 1
            THEN StreakFrom(dates, i + 1, streak + 1)
            ELSE [raised |-> FALSE, value |-> streak]

\* calculate_current_streak(sorted_dates)
calculate_current_streak(dates) ==
    IF Len(dates) = 0 THEN [raised |-> FALSE, value |-> 0]
    ELSE StreakFrom(dates, 2, 1)

\* A faulty variant: a gap does not start a new group.
RECURSIVE GroupsFrom_OneGroup(_, _, _, _)
GroupsFrom_OneGroup(dates, i, groups, current_group) ==
    IF i > Len(dates)
    THEN [raised |-> FALSE,
          groups |-> IF Len(current_group) > 0 THEN Append(groups, current_group) ELSE groups]
    ELSE LET current_date == StrptimeDate(dates[i])
         IN IF current_date = <<>> THEN [raised |-> TRUE, groups |-> groups]
            ELSE GroupsFrom_OneGroup(dates, i + 1, groups, Append(current_group, dates[i]))

\* The loop at lines 930-947 from index i (counted from 1) on, and lines
\* 950-951 after it.
RECURSIVE GroupsFrom(_, _, _, _)
GroupsFrom(dates, i, groups, current_group) ==
    IF i > Len(dates)
    THEN [raised |-> FALSE,
          groups |-> IF Len(current_group) > 0 THEN Append(groups, current_group) ELSE groups]
    ELSE LET current_date == StrptimeDate(dates[i])
         IN IF current_date = <<>> THEN [raised |-> TRUE, groups |-> groups]
            ELSE IF i = 1 THEN GroupsFrom(dates, i + 1, groups, <<dates[i]>>)
            ELSE LET previous_date == StrptimeDate(dates[i - 1])
                 IN IF previous_date = <<>> \/ previous_date = <<1>>
                    THEN [raised |-> TRUE, groups |-> groups]
                    ELSE IF current_date[1] = previous_date[1] - 1
                    THEN GroupsFrom(dates, i + 1, groups, Append(current_group, dates[i]))
                    ELSE GroupsFrom(dates, i + 1,
                                    IF Len(current_group) > 0
                                    THEN Append(groups, current_group) ELSE groups,
                                    <<dates[i]>>)

\* A faulty variant: the most recent date of a group gets 1.
StreakValue_NewestFirst(group_length, i) == i + 1

\* streak_value = group_length - i (line 964), i counted from 0.
StreakValue(group_length, i) == group_length - i

\* A faulty variant: the break row counts the days from the last date of the
\* group to the first of the next, that one included.
GroupRows_GapNotReduced(groups, group_idx, time_data_) ==
    LET group == groups[group_idx]
        days == [i \in 1..Len(group) |->
                    [kind |-> "day", date |-> group[i],
                     work_time |-> DictGet(time_data_, group[i], <<"-">>),
                     streak |-> StreakValue(Len(group), i - 1)]]
        break_length == IF group_idx < Len(groups)
                        THEN StrptimeDate(group[Len(group)])[1]
                             - StrptimeDate(groups[group_idx + 1][1])[1]
                        ELSE 0
    IN IF break_length > 0 THEN Append(days, [kind |-> "break", days |-> break_length])
       ELSE days

\* The rows of one group (lines 957-976): one row for each date with the
\* date, the worked hours and the streak value the row shows, and after the
\* last date a break row with its number of days when another group follows
\* and the number is positive.
GroupRows(groups, group_idx, time_data_) ==
    LET group == groups[group_idx]
        days == [i \in 1..Len(group) |->
                    [kind |-> "day", date |-> group[i],
                     work_time |-> DictGet(time_data_, group[i], <<"-">>),
                     streak |-> StreakValue(Len(group), i - 1)]]
        break_length == IF group_idx < Len(groups)
                        THEN StrptimeDate(group[Len(group)])[1]
                             - StrptimeDate(groups[group_idx + 1][1])[1] - 1
                        ELSE 0
    IN IF break_length > 0 THEN Append(days, [kind |-> "break", days |-> break_length])
       ELSE days

RECURSIVE RowsFrom(_, _, _)
RowsFrom(groups, group_idx, time_data_) ==
    IF group_idx > Len(groups) THEN <<>>
    ELSE GroupRows(groups, group_idx, time_data_) \o RowsFrom(groups, group_idx + 1, time_data_)

\* generate_table_rows_with_breaks(sorted_dates, aggregated_data): the local
\* streak_groups and the returned rows, or raised.
generate_table_rows_with_breaks(dates, aggregated_) ==
    LET Rows(g) ==
            IF g.raised THEN [raised |-> TRUE, groups |-> g.groups, rows |-> <<>>]
            ELSE [raised |-> FALSE, groups |-> g.groups,
                  rows |-> RowsFrom(g.groups, 1, aggregated_.time_tracking)]
    IN IF Len(dates) = 0 THEN [raised |-> FALSE, groups |-> <<>>, rows |-> <<>>]
       ELSE Rows(GroupsFrom(dates, 1, <<>>, <<>>))

-----------------------------------------------------------------------------
(* Python float: IEEE 754 binary64 on the worked hours, which are never
   negative.  A float is zero or its 53 significand bits, the first one 1,
   with the power of two of the last bit. *)

\* The bits of the significand of a binary64 number.
Precision == 53

Zeros(n) == [i \in 1..n |-> 0]

\* Natural numbers as sequences of bits, the highest first.
StripZeros(b) ==
    IF \A i \in 1..Len(b) : b[i] = 0 THEN <<>>
    ELSE SubSeq(b, CHOOSE i \in 1..Len(b) : b[i] = 1 /\ \A j \in 1..(i - 1) : b[j] = 0,
                Len(b))
BitsOfNat(n) ==
    LET Bits(len) == [i \in 1..len |-> (n \div 2 ^ (len - i)) % 2]
    IN Bits(CHOOSE len \in 0..30 : n < 2 ^ len /\ (len = 0 \/ n >= 2 ^ (len - 1)))
RECURSIVE NatOfBits(_)
NatOfBits(b) ==
    IF Len(b) = 0 THEN 0
    ELSE IF Len(b) = 1 THEN b[1]
    ELSE NatOfBits(SubSeq(b, 1, Len(b) \div 2)) * 2 ^ (Len(b) - Len(b) \div 2)
         + NatOfBits(SubSeq(b, Len(b) \div 2 + 1, Len(b)))

\* The carry out of, and then the sum of, the bits lo..hi of a and b (of
\* one length) and the carry into them: the lower half first, its carry
\* into the upper half.
RECURSIVE AddCarry(_, _, _, _, _)
AddCarry(a, b, lo, hi, carry) ==
    IF lo = hi
    THEN <<(a[lo] + b[lo] + carry) \div 2, (a[lo] + b[lo] + carry) % 2>>
    ELSE LET Upper(lower) ==
                 IF lower[1] = 0
                 THEN AddCarry(a, b, lo, (lo + hi) \div 2, 0) \o Tail(lower)
                 ELSE AddCarry(a, b, lo, (lo + hi) \div 2, 1) \o Tail(lower)
         IN Upper(AddCarry(a, b, (lo + hi) \div 2 + 1, hi, carry))
AddBits(a, b) ==
    LET Sum(x, y) == IF Len(x) = 0 THEN <<>> ELSE StripZeros(AddCarry(x, y, 1, Len(x), 0))
    IN Sum(Zeros(Max2(Len(a), Len(b)) - Len(a)) \o a,
           Zeros(Max2(Len(a), Len(b)) - Len(b)) \o b)

FloatZero == [bits |-> <<>>, exp |-> 0]

\* A faulty variant: the bits beyond the significand are cut off.
RoundBits_Truncate(b, exp, sticky) ==
    IF Len(b) = 0 THEN FloatZero
    ELSE IF Len(b) <= Precision
    THEN [bits |-> b \o Zeros(Precision - Len(b)), exp |-> exp - (Precision - Len(b))]
    ELSE [bits |-> SubSeq(b, 1, Precision), exp |-> exp + (Len(b) - Precision)]

\* Round to nearest, ties to even: the number b * 2^exp, followed by bits
\* that are not all 0 when sticky, as a float.
RoundBits(b, exp, sticky) ==
    IF Len(b) = 0 THEN FloatZero
    ELSE IF Len(b) <= Precision
    THEN [bits |-> b \o Zeros(Precision - Len(b)), exp |-> exp - (Precision - Len(b))]
    ELSE LET Rounded(keep, up, e) ==
                 IF ~up THEN [bits |-> keep, exp |-> e]
                 ELSE IF \A i \in 1..Precision : keep[i] = 1
                 THEN [bits |-> <<1>> \o Zeros(Precision - 1), exp |-> e + 1]
                 ELSE [bits |-> AddBits(keep, <<1>>), exp |-> e]
         IN Rounded(SubSeq(b, 1, Precision),
                    /\ b[Precision + 1] = 1
                    /\ \/ sticky
                       \/ \E i \in (Precision + 2)..Len(b) : b[i] = 1
                       \/ b[Precision] = 1,
                    exp + (Len(b) - Precision))

\* x + y
FloatAdd(x, y) ==
    IF x = FloatZero THEN y
    ELSE IF y = FloatZero THEN x
    ELSE RoundBits(AddBits(x.bits \o Zeros(x.exp - Min2(x.exp, y.exp)),
                           y.bits \o Zeros(y.exp - Min2(x.exp, y.exp))),
                   Min2(x.exp, y.exp), FALSE)

\* The first n bits after the point of r / d, for r < d, and what is left
\* of r after them: one half of the bits, then the other.
RECURSIVE FractionRest(_, _, _)
FractionRest(r, d, n) ==
    IF n = 0 \/ r = 0 THEN r
    ELSE IF n = 1 THEN (2 * r) % d
    ELSE FractionRest(FractionRest(r, d, n \div 2), d, n - n \div 2)
RECURSIVE FractionBits(_, _, _)
FractionBits(r, d, n) ==
    IF n = 0 THEN <<>>
    ELSE IF n = 1 THEN <<(2 * r) \div d>>
    ELSE FractionBits(r, d, n \div 2)
         \o FractionBits(FractionRest(r, d, n \div 2), d, n - n \div 2)

\* The bits after the point that float() works out before it rounds.
FractionLen == 64

\* float(text) of digits with an optional point and more digits: the
\* nearest float to n / d.
FloatOfRatio(n, d) ==
    RoundBits(StripZeros(BitsOfNat(n \div d) \o FractionBits(n % d, d, FractionLen)),
              0 - FractionLen, FractionRest(n % d, d, FractionLen) # 0)

\* x == int(x)
FloatIsWhole(x) ==
    \/ x = FloatZero
    \/ x.exp >= 0
    \/ /\ 0 - x.exp < Precision
       /\ \A i \in (Precision + x.exp + 1)..Precision : x.bits[i] = 0

\* int(x)
FloatInt(x) ==
    IF x = FloatZero \/ 0 - x.exp >= Precision THEN 0
    ELSE IF x.exp >= 0 THEN NatOfBits(x.bits \o Zeros(x.exp))
    ELSE NatOfBits(SubSeq(x.bits, 1, Precision + x.exp))

\* f"{x:.1f}": the decimal with one digit after the point nearest to x, a
\* tie going to the even digit.
FloatFormat1(x) ==
    LET Tenths(t, frac) ==
            IF /\ Len(frac) > 0 /\ frac[1] = 1
               /\ \/ \E i \in 2..Len(frac) : frac[i] = 1
                  \/ t % 2 = 1
            THEN t + 1 ELSE t
        Text(tenths) == IntToStr(tenths \div 10) \o <<".", DigitChars[(tenths % 10) + 1]>>
        \* ten times the significand: eight times and twice
        Split(b) ==
            IF x.exp >= 0 THEN Text(NatOfBits(b \o Zeros(x.exp)))
            ELSE IF 0 - x.exp >= Len(b)
            THEN Text(Tenths(0, Zeros(0 - x.exp - Len(b)) \o b))
            ELSE Text(Tenths(NatOfBits(SubSeq(b, 1, Len(b) + x.exp)),
                             SubSeq(b, Len(b) + x.exp + 1, Len(b))))
    IN IF x = FloatZero THEN <<"0", ".", "0">>
       ELSE Split(AddBits(x.bits \o <<0, 0, 0>>, x.bits \o <<0>>))

\* re.match(r'(\d+(?:\.\d+)?)h?', work_time) and float(match.group(1)):
\* <<>> when there is no match.
FloatOfMatch(text) ==
    LET Hours(r) ==
            IF r = <<>> THEN <<>>
            ELSE IF r[2] = r[1] THEN <<FloatOfRatio(DigitsVal(SubSeq(text, 1, r[1] - 1)), 1)>>
            ELSE <<FloatOfRatio(DigitsVal(SubSeq(text, 1, r[1] - 1) \o SubSeq(text, r[1] + 1, r[2] - 1)),
                                Pow10(r[2] - r[1] - 1))>>
    IN Hours(Match(ExtraPattern, text, 1))

\* The text of the total: f"{int(x)}h" or f"{x:.1f}h" (lines 899-902).
FloatHours(x) ==
    IF FloatIsWhole(x) THEN IntToStr(FloatInt(x)) \o <<"h">> ELSE FloatFormat1(x) \o <<"h">>

-----------------------------------------------------------------------------
(* Dashboard: work time totals, get_readme_template *)

\* A loop over a list in two halves: Rest(first) with first, what the loop
\* has made of the first half, worked out before the second half is entered.
AndThen(first, Rest(_)) == CHOOSE after \in {Rest(before) : before \in {first}} : TRUE

\* The body of the loops over the time map that count hours: total_hours
\* and valid_entries (t) after an entry with these hours, <<>> for an entry
\* that is passed over.
Counted(t, hours) ==
    IF hours = <<>> THEN t
    ELSE [total_hours |-> FloatAdd(t.total_hours, hours[1]),
          valid_entries |-> t.valid_entries + 1]

\* The loop of calculate_total_work_time (lines 886-893) over the entries
\* lo..hi, with total_hours and valid_entries (t) as they stand before them:
\* one half of the entries, then the other.
RECURSIVE TotalFrom(_, _, _, _)
TotalFrom(time_data_, lo, hi, t) ==
    IF lo > hi THEN t
    ELSE IF lo = hi
    THEN Counted(t, IF Len(time_data_[lo][2]) = 0 \/ time_data_[lo][2] = <<"-">> THEN <<>>
                    ELSE FloatOfMatch(time_data_[lo][2]))
    ELSE AndThen(TotalFrom(time_data_, lo, (lo + hi) \div 2, t),
                 LAMBDA half : TotalFrom(time_data_, (lo + hi) \div 2 + 1, hi, half))

\* A faulty variant: no counted entry gives "0h (0 days)".
calculate_total_work_time_ZeroHours(time_data_) ==
    LET Total(t) ==
            FloatHours(t.total_hours) \o <<" ", "(">> \o IntToStr(t.valid_entries)
            \o <<" ", "days", ")">>
    IN Total(TotalFrom(time_data_, 1, Len(time_data_),
                       [total_hours |-> FloatZero, valid_entries |-> 0]))

\* calculate_total_work_time(time_data)
calculate_total_work_time(time_data_) ==
    LET Total(t) ==
            IF t.valid_entries = 0 THEN <<"-">>
            ELSE FloatHours(t.total_hours) \o <<" ", "(">> \o IntToStr(t.valid_entries)
                 \o <<" ", "days", ")">>
    IN Total(TotalFrom(time_data_, 1, Len(time_data_),
                       [total_hours |-> FloatZero, valid_entries |-> 0]))

\* The loop of calculate_current_week_work_time (lines 265-277) over the
\* entries lo..hi, with total_hours and valid_entries (t) as they stand
\* before them; a date key that strptime refuses is passed over.
RECURSIVE WeekFrom(_, _, _, _, _)
WeekFrom(time_data_, lo, hi, start_of_week, t) ==
    IF lo > hi THEN t
    ELSE IF lo = hi
    THEN LET InWeek(entry_date) ==
                 IF entry_date = <<>> THEN <<>>
                 ELSE IF start_of_week <= entry_date[1] /\ entry_date[1] <= start_of_week + 6
                 THEN FloatOfMatch(time_data_[lo][2])
                 ELSE <<>>
         IN Counted(t, IF Len(time_data_[lo][2]) = 0 \/ time_data_[lo][2] = <<"-">> THEN <<>>
                       ELSE InWeek(StrptimeDate(time_data_[lo][1])))
    ELSE AndThen(WeekFrom(time_data_, lo, (lo + hi) \div 2, start_of_week, t),
                 LAMBDA half : WeekFrom(time_data_, (lo + hi) \div 2 + 1, hi,
                                        start_of_week, half))

\* calculate_current_week_work_time(time_data), today being the ordinal of
\* datetime.now().date().
calculate_current_week_work_time(time_data_, today) ==
    LET Week(start_of_week, t) ==
            IF t.valid_entries = 0 THEN <<"-">>
            ELSE FloatHours(t.total_hours) \o <<" ", "(">> \o IntToStr(t.valid_entries)
                 \o <<" ", "days", ",", " ">> \o DateText(start_of_week)
                 \o <<" ", "to", " ">> \o DateText(start_of_week + 6) \o <<")">>
    IN Week(today - Weekday(today),
            WeekFrom(time_data_, 1, Len(time_data_), today - Weekday(today),
                     [total_hours |-> FloatZero, valid_entries |-> 0]))

\* A faulty variant: the keys of the time map count as dates as well.
AllDates_WithTimeKeys(aggregated_) ==
    UNION { {aggregated_[key][i][1] : i \in 1..Len(aggregated_[key])} : key \in Keys }
    \cup DictKeys(aggregated_.time_tracking)


\* The dates of the category sequences (lines 748-752).
AllDates(aggregated_) ==
    UNION { {aggregated_[key][i][1] : i \in 1..Len(aggregated_[key])} : key \in Keys }

\* get_readme_template(aggregated_data): the local sorted_dates, whether an
\* exception left the function, and what the dashboard shows in its
\* overview and in its table.
get_readme_template(aggregated_, today) ==
    LET Template(dates, streak, table) ==
            IF streak.raised \/ table.raised
            THEN [raised |-> TRUE, sorted_dates |-> dates]
            ELSE [raised |-> FALSE, sorted_dates |-> dates,
                  current_streak |-> streak.value,
                  streak_groups |-> table.groups,
                  table_rows |-> table.rows,
                  readme |->
                      [total_entries |-> Len(aggregated_["accomplished"])
                                         + Len(aggregated_["blockers"])
                                         + Len(aggregated_["learned"])
                                         + Len(aggregated_["improve"]),
                       days_logged |-> Len(dates),
                       latest_entry |-> IF Len(dates) > 0 THEN dates[1]
                                        ELSE <<"No entries yet">>,
                       current_streak |-> streak.value,
                       current_week_work_time |->
                           calculate_current_week_work_time(aggregated_.time_tracking, today),
                       total_work_time |-> calculate_total_work_time(aggregated_.time_tracking),
                       table_rows |-> table.rows]]
        Dashboard(dates) ==
            Template(dates, calculate_current_streak(dates),
                     generate_table_rows_with_breaks(dates, aggregated_))
    IN Dashboard(Reverse(SortedStrings(AllDates(aggregated_))))

\* The days the dashboard is built on: a Wednesday in the week of the
\* entries, and a Monday after them.
Todays == {Ordinal(2025, 7, 2), Ordinal(2025, 7, 14)}

-----------------------------------------------------------------------------
(* The directories parse_journal_entries is called with *)

MaxFiles == 2

\* File names: with a date, with the same date and a suffix (it sorts before
\* the plain one), with a prefix (it sorts after every date), with a date
\* that is no calendar date, and with no date.
FileNames ==
    { <<"2", "0", "2", "5", "-", "0", "7", "-", "0", "1", ".", "m", "d">>,
      <<"2", "0", "2", "5", "-", "0", "7", "-", "0", "1", "-", "b", ".", "m", "d">>,
      <<"2", "0", "2", "5", "-", "0", "7", "-", "0", "2", ".", "m", "d">>,
      <<"a", "-", "2", "0", "2", "5", "-", "0", "6", "-", "3", "0", ".", "m", "d">>,
      <<"2", "0", "2", "5", "-", "1", "3", "-", "4", "5", ".", "m", "d">>,
      <<"n", "o", "t", "e", "s", ".", "m", "d">> }

\* A Time Tracking block with its three values filled in.
FilledTimeBlock(s, e, x) ==
    TimeHeadingLine \o <<"\n">>
    \o FieldLine("Start time", s) \o FieldLine("End time", e) \o FieldLine("Extra hours", x)
    \o <<"\n">>

\* The text of a file that cannot be read or decoded: read_text raises.
Unreadable == <<"<unreadable>">>

\* The texts of the files: a full entry, an entry without a Time Tracking
\* block and with its sections in another order, an entry with a Time
\* Tracking block and no item, and a file that cannot be read.
FullEntry ==
    FilledTimeBlock(HHMM(9, 0), HHMM(17, 0), <<"1", ".", "5">>)
    \o HeadingLine("accomplished", "plain")
    \o <<"-", " ", "a", "\n", "-", " ", "b", " ", "[", "x", "]", "\n", "\n">>
    \o HeadingLine("learned", "plain") \o <<"-", " ", "c", "\n">>
ItemsOnlyEntry ==
    HeadingLine("blockers", "plain") \o <<"-", " ", "d", "\n">>
    \o HeadingLine("accomplished", "plain") \o <<"-", " ", "e", "\n">>
TimeOnlyEntry == FilledTimeBlock(HHMM(22, 0), HHMM(2, 0), <<"0">>)
JournalTexts == {FullEntry, ItemsOnlyEntry, TimeOnlyEntry, Unreadable}

\* Lines 279 and 287-292 on each of the texts above: the sections and the
\* worked hours of the text.
ParsedTexts ==
    LET Parsed(text, time_data_) ==
            [sections |-> parse_entry_sections(text),
             time_data |-> time_data_,
             work_time |-> calculate_work_time(time_data_["start_time"],
                                               time_data_["end_time"],
                                               time_data_["extra_hours"]).result]
    IN [text \in JournalTexts \ {Unreadable} |-> Parsed(text, parse_time_tracking(text))]

\* A faulty variant: a file that cannot be read still gets a time record.
AggregateFile_RecordsFailure(aggregated_, name, text) ==
    LET Added(date_str, parsed) ==
            [key \in DOMAIN aggregated_ |->
                IF key = "time_tracking"
                THEN DictSet(aggregated_.time_tracking, date_str, parsed.work_time)
                ELSE aggregated_[key] \o Dated(date_str, parsed.sections[key])]
    IN IF text = Unreadable
       THEN [aggregated_ EXCEPT
                !.time_tracking = DictSet(aggregated_.time_tracking,
                                          get_date_from_filename(name), <<"-">>)]
       ELSE Added(get_date_from_filename(name), ParsedTexts[text])

\* One turn of the loop of parse_journal_entries on the file name with the
\* text text: the dictionary after it.  A file that cannot be read raises
\* at read_text, before anything is added, and the except clause goes on.
AggregateFile(aggregated_, name, text) ==
    LET Added(date_str, parsed) ==
            [key \in DOMAIN aggregated_ |->
                IF key = "time_tracking"
                THEN DictSet(aggregated_.time_tracking, date_str, parsed.work_time)
                ELSE aggregated_[key] \o Dated(date_str, parsed.sections[key])]
    IN IF text = Unreadable THEN aggregated_
       ELSE Added(get_date_from_filename(name), ParsedTexts[text])

\* A directory: its *.md file names, each with the text of the file.
Directories ==
    UNION { [names -> JournalTexts] :
              names \in {n \in SUBSET FileNames : Cardinality(n) <= MaxFiles} }

-----------------------------------------------------------------------------
(* parse_journal_entries on every directory above *)

\* sorted(entries_dir.glob("*.md"))
EntryFiles == SortedStrings(DOMAIN entries_dir)

InitAggregate ==
    /\ pc = "start"
    /\ entries_dir \in Directories
    /\ file_index = 0
    /\ aggregated = EmptyAggregate
    /\ content = <<>>
    /\ section_content = NoSections
    /\ sections = NoSections
    /\ time_section = <<>>
    /\ time_data = NoTimeData
    /\ start_time = None
    /\ end_time = None
    /\ extra_hours = None
    /\ duration = <<>>
    /\ work_hours = <<>>
    /\ work_time = None
    /\ NoItems /\ NoDashboard /\ NoRollups /\ NoCommand

\* One turn of the loop at lines 274-296.
ProcessEntryFile ==
    /\ pc = "start"
    /\ file_index < Len(EntryFiles)
    /\ \E entry_file \in {EntryFiles[file_index + 1]} :
          \E text \in {entries_dir[entry_file]} :
             /\ aggregated' = AggregateFile(aggregated, entry_file, text)
             /\ IF text = Unreadable
                THEN UNCHANGED <<content, sections, time_data, work_time>>
                ELSE \E parsed \in {ParsedTexts[text]} :
                        /\ content' = text
                        /\ sections' = parsed.sections
                        /\ time_data' = parsed.time_data
                        /\ work_time' = parsed.work_time
    /\ file_index' = file_index + 1
    /\ UNCHANGED <<pc, entries_dir, section_content, time_section,
                   start_time, end_time, extra_hours, duration, work_hours,
                   itemVars, dashVars, rollVars, cmdVars>>

\* Line 298: the loop is over.
ReturnAggregated ==
    /\ pc = "start"
    /\ file_index = Len(EntryFiles)
    /\ pc' = "aggregated"
    /\ UNCHANGED <<docVars, calcVars, itemVars, aggVars, dashVars, rollVars, cmdVars>>

\* get_readme_template on the returned dictionary (aggregate_command).  An
\* exception leaves the function with the dashboard unset.
GetReadmeTemplate ==
    /\ pc = "aggregated"
    /\ \E today \in Todays :
          \E r \in {get_readme_template(aggregated, today)} :
             /\ sorted_dates' = r.sorted_dates
             /\ IF r.raised
                THEN /\ pc' = "raised"
                     /\ UNCHANGED <<current_streak, streak_groups, table_rows, readme>>
                ELSE /\ pc' = "dashboard"
                     /\ current_streak' = <<r.current_streak>>
                     /\ streak_groups' = r.streak_groups
                     /\ table_rows' = r.table_rows
                     /\ readme' = r.readme
    /\ UNCHANGED <<docVars, calcVars, itemVars, aggVars, rollVars, cmdVars>>

NextAggregate == ProcessEntryFile \/ ReturnAggregated \/ GetReadmeTemplate
SpecAggregate == InitAggregate /\ [][NextAggregate]_vars

-----------------------------------------------------------------------------
(* The date lists the streak functions are called with *)

MaxDates == 4

\* Days around the gap of the example, around the end of February of a leap
\* year and of a common year, and around the turn of a year.
DatePool ==
    { <<2025, 7, 4>>, <<2025, 7, 5>>, <<2025, 7, 8>>, <<2025, 7, 9>>, <<2025, 7, 10>>,
      <<2024, 2, 28>>, <<2024, 2, 29>>, <<2024, 3, 1>>,
      <<2025, 2, 28>>, <<2025, 3, 1>>,
      <<2024, 12, 31>>, <<2025, 1, 1>> }
DateKey(ymd) ==
    FourDigits(ymd[1]) \o <<"-">> \o TwoDigits(ymd[2]) \o <<"-">> \o TwoDigits(ymd[3])

\* sorted(all_dates, reverse=True) for every set of at most MaxDates days.
DateLists ==
    { Reverse(SortedStrings({DateKey(ymd) : ymd \in days})) :
        days \in {d \in SUBSET DatePool : Cardinality(d) <= MaxDates} }

-----------------------------------------------------------------------------
(* calculate_current_streak, then generate_table_rows_with_breaks, on every
   date list above (lines 756 and 796 of get_readme_template) *)

InitStreak ==
    /\ pc = "start"
    /\ sorted_dates \in DateLists
    /\ \E hours \in {<<>>, <<"8", "h">>} :
          aggregated =
              [EmptyAggregate EXCEPT
                  !.time_tracking = IF hours = <<>> \/ Len(sorted_dates) = 0 THEN <<>>
                                    ELSE << <<sorted_dates[Len(sorted_dates)], hours>> >>]
    /\ current_streak = <<>>
    /\ streak_groups = <<>>
    /\ table_rows = <<>>
    /\ readme = <<>>
    /\ entries_dir = <<>>
    /\ file_index = 0
    /\ content = <<>>
    /\ section_content = NoSections
    /\ sections = NoSections
    /\ time_section = <<>>
    /\ time_data = NoTimeData
    /\ start_time = None
    /\ end_time = None
    /\ extra_hours = None
    /\ duration = <<>>
    /\ work_hours = <<>>
    /\ work_time = None
    /\ NoItems /\ NoRollups /\ NoCommand

CalculateCurrentStreak ==
    /\ pc = "start"
    /\ LET r == calculate_current_streak(sorted_dates)
       IN IF r.raised
          THEN pc' = "raised" /\ UNCHANGED current_streak
          ELSE pc' = "streak" /\ current_streak' = <<r.value>>
    /\ UNCHANGED <<sorted_dates, streak_groups, table_rows, readme,
                   docVars, calcVars, itemVars, aggVars, rollVars, cmdVars>>

GenerateTableRows ==
    /\ pc = "streak"
    /\ LET r == generate_table_rows_with_breaks(sorted_dates, aggregated)
       IN /\ streak_groups' = r.groups
          /\ table_rows' = r.rows
          /\ pc' = IF r.raised THEN "raised" ELSE "done"
    /\ UNCHANGED <<sorted_dates, current_streak, readme,
                   docVars, calcVars, itemVars, aggVars, rollVars, cmdVars>>

NextStreak == CalculateCurrentStreak \/ GenerateTableRows
SpecStreak == InitStreak /\ [][NextStreak]_vars

-----------------------------------------------------------------------------
(* Claims on calculate_work_time, checked under SpecWorkTime *)

Dash == <<"-">>

\* C1: calculate_work_time returns "-" whenever the start or the end time is
\* missing (None or empty) or is refused by parse_time_string, whatever the
\* extra hours are, and it always returns a text.
C1_DashWhenTimeMissing ==
    pc = "done" =>
        /\ work_time # None
        /\ ( \/ Falsy(start_time) \/ Falsy(end_time)
             \/ parse_time_string(start_time) = <<>>
             \/ parse_time_string(end_time) = <<>> ) => work_time = Dash

\* C1 happens: a parseable start, no end, a valid extra, and "-" returned.
C1_Witness ==
    /\ pc = "done"
    /\ start_time = HHMM(9, 0)
    /\ end_time = None
    /\ extra_hours = <<"1", ".", "5">>
    /\ work_time = Dash

\* C2: for parseable start and end the duration used is end - start, with an
\* end earlier than the start taken on the next day: it is never negative and
\* below 24 hours, 0 for equal times, and 22:00 to 02:00 gives 4 hours and "3h".
C2_OvernightDuration ==
    (pc = "done" /\ parse_time_string(start_time) # <<>> /\ parse_time_string(end_time) # <<>>) =>
        LET s == parse_time_string(start_time)[1]
            e == parse_time_string(end_time)[1]
        IN /\ Len(duration) = 1
           /\ duration[1] >= 0 /\ duration[1] < 24 * 60
           /\ e >= s => duration[1] = e - s
           /\ e < s => duration[1] = (e + 24 * 60) - s
           /\ (start_time = HHMM(22, 0) /\ end_time = HHMM(2, 0) /\ extra_hours = None)
                 => (duration[1] = 4 * 60 /\ work_time = <<"3", "h">>)

\* C2 happens: the overnight shift 22:00 to 02:00 has been computed.
C2_Witness ==
    /\ pc = "done"
    /\ start_time = HHMM(22, 0)
    /\ end_time = HHMM(2, 0)
    /\ extra_hours = None
    /\ duration = <<240>>
    /\ work_time = <<"3", "h">>

\* A text of the form HH:MM naming a time of the day, and the minute of the
\* day it names.
IsClock(t) ==
    /\ t # None
    /\ Len(t) = 5
    /\ t[3] = ":"
    /\ \A k \in {1, 2, 4, 5} : t[k] \in Digit
    /\ DigitVal(t[1]) * 10 + DigitVal(t[2]) <= 23
    /\ DigitVal(t[4]) * 10 + DigitVal(t[5]) <= 59
ClockMinute(t) ==
    (DigitVal(t[1]) * 10 + DigitVal(t[2])) * 60 + DigitVal(t[4]) * 10 + DigitVal(t[5])

\* C3: for valid HH:MM times with end > start and no extra hours the worked
\* hours are end - start - 1 hour floored at zero: never negative, and "0h"
\* for every duration of one hour or less.
C3_HourDeductedFlooredAtZero ==
    (pc = "done" /\ IsClock(start_time) /\ IsClock(end_time) /\ extra_hours = None
        /\ ClockMinute(end_time) > ClockMinute(start_time)) =>
        LET d == ClockMinute(end_time) - ClockMinute(start_time)
        IN /\ Len(work_hours) = 1
           /\ work_hours[1] >= 0
           /\ work_hours[1] = (IF d > 60 THEN d - 60 ELSE 0)
           /\ d <= 60 => work_time = <<"0", "h">>
           /\ work_time # Dash

\* C3 happens: a half-hour day gives "0h".
C3_Witness ==
    /\ pc = "done"
    /\ start_time = HHMM(9, 0)
    /\ end_time = HHMM(9, 30)
    /\ extra_hours = None
    /\ work_hours = <<0>>
    /\ work_time = <<"0", "h">>

\* A decimal number: digits, or digits "." digits.
AllDigits(d) == Len(d) > 0 /\ \A k \in 1..Len(d) : d[k] \in Digit
IsDecimal(d) ==
    \/ AllDigits(d)
    \/ \E k \in 2..(Len(d) - 1) :
          /\ d[k] = "."
          /\ AllDigits(SubSeq(d, 1, k - 1))
          /\ AllDigits(SubSeq(d, k + 1, Len(d)))
\* The value, in minutes, of the longest decimal number text begins with
\* (after stripping); 0 when it begins with none.
LeadingDecimalMinutes(text) ==
    IF text = None THEN 0
    ELSE LET x == Strip(text)
             ks == {k \in 1..Len(x) : IsDecimal(SubSeq(x, 1, k))}
         IN IF ks = {} THEN 0
            ELSE LET k == CHOOSE n \in ks : \A m \in ks : m <= n
                     d == SubSeq(x, 1, k)
                     dot == {j \in 1..k : d[j] = "."}
                 IN IF dot = {} THEN DigitsVal(d) * 60
                    ELSE LET j == CHOOSE n \in dot : TRUE
                         IN DigitsVal(SubSeq(d, 1, j - 1)) * 60
                            + (DigitsVal(SubSeq(d, j + 1, k)) * 60) \div Pow10(k - j)

\* C4: with parseable start and end, the worked hours are the floored base
\* hours plus the leading decimal number of extra (followed by 'h' or not);
\* an extra that begins with no decimal number adds exactly zero, and the
\* result is never "-".
C4_ExtraHoursAdded ==
    (pc = "done" /\ parse_time_string(start_time) # <<>> /\ parse_time_string(end_time) # <<>>) =>
        /\ Len(duration) = 1 /\ Len(work_hours) = 1
        /\ work_hours[1] = Max2(0, duration[1] - 60) + LeadingDecimalMinutes(extra_hours)
        /\ work_time # Dash
        /\ (start_time = HHMM(9, 0) /\ end_time = HHMM(17, 0) /\ extra_hours = <<"1", ".", "5">>)
              => work_time = <<"8", ".", "5", "h">>

\* C4 happens: 09:00 to 17:00 with extra "1.5" gives "8.5h".
C4_Witness ==
    /\ pc = "done"
    /\ start_time = HHMM(9, 0)
    /\ end_time = HHMM(17, 0)
    /\ extra_hours = <<"1", ".", "5">>
    /\ work_time = <<"8", ".", "5", "h">>

\* The shapes of a returned text: "<int>h" and "<int>.<digit>h".
IsIntegerShape(t) ==
    /\ Len(t) >= 2
    /\ t[Len(t)] = "h"
    /\ AllDigits(SubSeq(t, 1, Len(t) - 1))
IsOneDecimalShape(t) ==
    /\ Len(t) >= 4
    /\ t[Len(t)] = "h"
    /\ t[Len(t) - 1] \in Digit
    /\ t[Len(t) - 2] = "."
    /\ AllDigits(SubSeq(t, 1, Len(t) - 3))

-----------------------------------------------------------------------------
(* Claims on parse_entry_sections, checked under SpecSections and SpecReorder *)

\* The heading of key, as section_patterns knows it, starts at position p of s.
HeadingAt(s, key, p) == Match(section_patterns(key), s, p) # <<>>
HeadingStarts(s, key) == {p \in 1..Len(s) : HeadingAt(s, key, p)}
SetMin(S) == CHOOSE n \in S : \A m \in S : n <= m

\* The text from just after the first heading of key up to the nearest later
\* heading of another key, or to the end of the document.
BodyOf(s, key) ==
    LET from == Match(section_patterns(key), s, SetMin(HeadingStarts(s, key)))[1]
        others == {q \in from..Len(s) : \E k2 \in Keys \ {key} : HeadingAt(s, k2, q)}
        to == IF others = {} THEN Len(s) + 1 ELSE SetMin(others)
    IN SubSeq(s, from, to - 1)

\* C6: for each category heading found, the section body is the text from
\* just after that heading up to the start of the nearest later heading of
\* one of the other three categories, or up to the end of the document (the
\* body is then stripped and its lines become the entries); a category whose
\* heading is not found has no entries.
C6_BodyUpToNextOtherHeading ==
    pc = "done" =>
        \A key \in Keys :
            IF HeadingStarts(content, key) = {}
            THEN sections[key] = <<>>
            ELSE /\ section_content[key] = Strip(BodyOf(content, key))
                 /\ sections[key] = parse_section_entries(Strip(BodyOf(content, key)))

\* C6 happens: a heading followed by the heading of another category, one
\* followed by a second heading of its own category, and one that runs to
\* the end of the document, each with entries.
C6_Witness ==
    /\ pc = "done"
    /\ content = Document(TemplateOrder, [k \in Keys |-> 1], "improve", "plain", TRUE, "first")
    /\ sections["accomplished"] = << <<<<"a">>, <<>>>> >>
    /\ sections["improve"] = << <<<<"d">>, <<>>>>, <<<<"x">>, <<>>>> >>

\* The document with its four sections (each from the start of its heading to
\* the start of the next one, the last to the end) put in the given order;
\* what comes before the first heading stays first.
AllHeadingStarts(s) == UNION {HeadingStarts(s, key) : key \in Keys}
FourSections(s) == \A key \in Keys : Cardinality(HeadingStarts(s, key)) = 1
SectionChunk(s, key) ==
    LET p == SetMin(HeadingStarts(s, key))
        later == {q \in AllHeadingStarts(s) : q > p}
    IN SubSeq(s, p, (IF later = {} THEN Len(s) + 1 ELSE SetMin(later)) - 1)
Reordered(s, order) ==
    SubSeq(s, 1, SetMin(AllHeadingStarts(s)) - 1)
    \o SectionChunk(s, order[1]) \o SectionChunk(s, order[2])
    \o SectionChunk(s, order[3]) \o SectionChunk(s, order[4])

TimeLabels == {"Start time", "End time", "Extra hours"}

\* C26: no item parse_entry_sections returns holds one of the labelled
\* lines of the Time Tracking block, wherever the block stands in the
\* document.
C26_NoTimeLineAmongItems ==
    pc = "done" =>
       \A key \in Keys : \A i \in 1..Len(sections[key]) :
          \A p \in 1..Len(sections[key][i][1]) : sections[key][i][1][p] \notin TimeLabels


\* A level-2 heading line that carries the label of key after any emoji
\* starts at position p of s, and an item line follows it.
AnyEmoji == {Emoji[k] : k \in Keys} \cup {ClockEmoji, OtherEmoji}
LabelledHeadingWithItemAt(s, key, p) ==
    /\ p = 1 \/ s[p - 1] = "\n"
    /\ LET m == Match(<<One({"#"}), One({"#"}), Plus({" "}), One(AnyEmoji), Plus({" "}),
                       One(Label[key]), One({"\n"}), One({"-"})>>, s, p)
       IN m # <<>>

\* C8: a category heading is recognised by its label alone: a level-2 heading
\* carrying the label is found whichever emoji precedes the label, so the
\* items under it are returned for its category.
C8_HeadingFoundByLabelAlone ==
    pc = "done" =>
        \A key \in Keys :
            (\E p \in 1..Len(content) : LabelledHeadingWithItemAt(content, key, p))
                => sections[key] # <<>>

-----------------------------------------------------------------------------
(* Claims on parse_time_tracking, checked under SpecTimeTracking *)

\* The place of a label in the document, and the text after the colon on the
\* label's own line.
LabelPos(s, label) == SetMin({p \in 1..Len(s) : s[p] = label})
OwnLineValue(s, label) ==
    LET colon == SetMin({q \in LabelPos(s, label)..Len(s) : s[q] = ":"})
        eol == SetMin({q \in colon..Len(s) : s[q] = "\n"} \cup {Len(s) + 1})
    IN SubSeq(s, colon + 1, eol - 1)

\* C9: each of the three fields is extracted from its own labelled line: when
\* the text after the colon on that line is empty or only whitespace the field
\* is None, whatever lines follow, and a captured value is the (trimmed) text
\* of that line, never text of a different line.
C9_FieldFromItsOwnLine ==
    pc # "start" =>
        \A i \in 1..3 :
            LET own == Strip(OwnLineValue(content, FieldLabels[i]))
                got == time_data[FieldKeys[i]]
            IN /\ Len(own) = 0 => got = None
               /\ got # None => got = own

\* The position after the Time Tracking heading, the start of the next
\* heading line of any level, and the next "##".
TimeHeadingEnd(s) == Search(TimeHeading, s)[2]
NextHeadingLine(s, from) ==
    SetMin({p \in from..Len(s) : s[p] = "#" /\ (p = 1 \/ s[p - 1] = "\n")} \cup {Len(s) + 1})
NextDoubleHash(s, from) ==
    SetMin({p \in from..(Len(s) - 1) : s[p] = "#" /\ s[p + 1] = "#"} \cup {Len(s) + 1})

\* The text of s from position from up to position to (exclusive), less the
\* newline that ends the document when it runs to the end.
BodyUpTo(s, from, to) ==
    IF to = Len(s) + 1 /\ from <= Len(s) /\ s[Len(s)] = "\n"
    THEN SubSeq(s, from, Len(s) - 1)
    ELSE SubSeq(s, from, to - 1)

\* C10 as stated: the Time Tracking body runs from just after the heading up
\* to the next markdown heading of any level, or the end of the document: a
\* labelled line after the next heading is never captured, and a labelled line
\* before the next heading line is inside the body.
C10_BodyUpToNextHeading ==
    (pc # "start" /\ Search(TimeHeading, content) # <<>>) =>
        LET from == TimeHeadingEnd(content)
            next == NextHeadingLine(content, from)
        IN /\ time_section = BodyUpTo(content, from, next)
           /\ \A i \in 1..3 :
                 LET p == LabelPos(content, FieldLabels[i])
                 IN /\ p > next => time_data[FieldKeys[i]] = None
                    /\ p < next => p < from + Len(time_section)

\* C10, what the code does instead: the Time Tracking body runs from just after
\* the heading up to the next "##" (the start of a heading of level two or
\* deeper, or "##" inside a line), or the end of the document; a level-1
\* heading does not end it.  A labelled line after that "##" is never
\* captured, and a labelled line before it is inside the body.
C10_BodyUpToNextDoubleHash ==
    (pc # "start" /\ Search(TimeHeading, content) # <<>>) =>
        LET from == TimeHeadingEnd(content)
            next == NextDoubleHash(content, from)
        IN /\ time_section = BodyUpTo(content, from, next)
           /\ \A i \in 1..3 :
                 LET p == LabelPos(content, FieldLabels[i])
                 IN /\ p > next => time_data[FieldKeys[i]] = None
                    /\ p < next => p < from + Len(time_section)

\* C10, the case of a level-1 heading: it stands before the End time line and a
\* section follows the block; the End time and Extra hours lines after the
\* level-1 heading are captured, the item of the section is not in the body.
C10_Witness ==
    /\ pc = "done"
    /\ content = TimeDocument(<<HHMM(9, 0), HHMM(17, 0), <<"1", ".", "5">>>>, "h1", 2, "section")
    /\ time_data["start_time"] = HHMM(9, 0)
    /\ time_data["end_time"] = HHMM(17, 0)
    /\ time_data["extra_hours"] = <<"1", ".", "5">>
    /\ work_time = <<"8", ".", "5", "h">>

-----------------------------------------------------------------------------
(* Claims on parse_section_entries, checked under SpecEntries *)

\* The lines of a body, read off the positions of its newlines.
NewlinesOf(s) == {i \in 1..Len(s) : s[i] = "\n"}
LineCount(s) == Cardinality(NewlinesOf(s)) + 1
LineStart(s, k) ==
    IF k = 1 THEN 1
    ELSE 1 + CHOOSE n \in NewlinesOf(s) : Cardinality({m \in NewlinesOf(s) : m < n}) = k - 2
LineEnd(s, k) == IF k = LineCount(s) THEN Len(s) ELSE LineStart(s, k + 1) - 2
BodyLine(s, k) == SubSeq(s, LineStart(s, k), LineEnd(s, k))
ShapeOf(line) == CHOOSE sh \in LineShapes : sh.line = line

\* The items of the lines k, k+1, ... of a body, each line parsed alone.
RECURSIVE ItemsLineByLine(_, _)
ItemsLineByLine(s, k) ==
    IF k > LineCount(s) THEN <<>>
    ELSE parse_section_entries(BodyLine(s, k)) \o ItemsLineByLine(s, k + 1)

Trimmed(t) == Len(t) > 0 /\ t[1] \notin Space /\ t[Len(t)] \notin Space

\* The returned items are those of the lines in line order; a line gives no
\* item when its kind is in dropped and exactly one item otherwise; every
\* returned text is non-empty and trimmed.
OneItemPerLine(dropped) ==
    pc = "done" =>
        /\ entries = ItemsLineByLine(section_body, 1)
        /\ \A k \in 1..LineCount(section_body) :
              LET line == BodyLine(section_body, k)
              IN Len(parse_section_entries(line)) =
                     (IF ShapeOf(line).kind \in dropped THEN 0 ELSE 1)
        /\ \A j \in 1..Len(entries) : Trimmed(entries[j][1])

\* C11 as stated: parse_section_entries returns, in line order, exactly one
\* item for every line that is non-blank and not a heading, except the lines
\* that are empty after list-marker stripping; every returned text is
\* non-empty and has no leading or trailing whitespace.
C11_OneItemPerLine == OneItemPerLine({"blank", "hash", "marker"})

\* C11 as amended: parse_section_entries returns, in line order, exactly one
\* item for every line that is non-blank and does not begin with "#", except
\* the lines that are empty after list-marker stripping and the lines of
\* which nothing is left once the comment is removed; every returned text is
\* non-empty and has no leading or trailing whitespace.
C11_OneItemPerLineWithText == OneItemPerLine({"blank", "hash", "marker", "comment"})

\* C11 happens: of a line that is only a comment and an item line, the second
\* alone gives an item.
C11_Witness ==
    /\ pc = "done"
    /\ section_body = <<"-", " ", "[", "x", "]", "\n", "-", " ", "a">>
    /\ entries = << <<<<"a">>, <<>>>> >>

\* The items the lines k, k+1, ... give when only the first bracketed span of
\* a line is taken out of it.
RECURSIVE FirstSpanItems(_, _)
FirstSpanItems(s, k) ==
    IF k > LineCount(s) THEN <<>>
    ELSE LET sh == ShapeOf(BodyLine(s, k))
         IN (IF sh.text = <<>> THEN <<>> ELSE << <<sh.text, sh.comment>> >>)
            \o FirstSpanItems(s, k + 1)

\* C12 as stated: the comment of a line is the inner text of its first
\* bracketed span; the item text is the line with only that span removed,
\* trimmed; a later span, identical or not, stays in the text; a line with no
\* brackets has an empty comment and its text unchanged.
C12_OnlyFirstSpanRemoved ==
    pc = "done" => entries = FirstSpanItems(section_body, 1)

-----------------------------------------------------------------------------
(* Claims on parse_journal_entries, checked under SpecAggregate *)

\* The file names in ascending order, each with its date key.
NamesAscending ==
    << [name |-> <<"2", "0", "2", "5", "-", "0", "7", "-", "0", "1", "-", "b", ".", "m", "d">>,
        date |-> <<"2", "0", "2", "5", "-", "0", "7", "-", "0", "1">>],
       [name |-> <<"2", "0", "2", "5", "-", "0", "7", "-", "0", "1", ".", "m", "d">>,
        date |-> <<"2", "0", "2", "5", "-", "0", "7", "-", "0", "1">>],
       [name |-> <<"2", "0", "2", "5", "-", "0", "7", "-", "0", "2", ".", "m", "d">>,
        date |-> <<"2", "0", "2", "5", "-", "0", "7", "-", "0", "2">>],
       [name |-> <<"2", "0", "2", "5", "-", "1", "3", "-", "4", "5", ".", "m", "d">>,
        date |-> <<"2", "0", "2", "5", "-", "1", "3", "-", "4", "5">>],
       [name |-> <<"a", "-", "2", "0", "2", "5", "-", "0", "6", "-", "3", "0", ".", "m", "d">>,
        date |-> <<"2", "0", "2", "5", "-", "0", "6", "-", "3", "0">>],
       [name |-> <<"n", "o", "t", "e", "s", ".", "m", "d">>,
        date |-> <<"n", "o", "t", "e", "s">>] >>

\* The (text, comment) items of each file text, by category and in the order
\* of its lines, and its worked hours.
NoItemsWritten == [key \in Keys |-> <<>>]
Written(text) ==
    CASE text = FullEntry ->
            [items |-> [NoItemsWritten EXCEPT
                           !["accomplished"] = << <<<<"a">>, <<>>>>, <<<<"b">>, <<"x">>>> >>,
                           !["learned"] = << <<<<"c">>, <<>>>> >>],
             hours |-> <<"8", ".", "5", "h">>]
      [] text = ItemsOnlyEntry ->
            [items |-> [NoItemsWritten EXCEPT
                           !["accomplished"] = << <<<<"e">>, <<>>>> >>,
                           !["blockers"] = << <<<<"d">>, <<>>>> >>],
             hours |-> <<"-">>]
      [] text = TimeOnlyEntry -> [items |-> NoItemsWritten, hours |-> <<"3", "h">>]
      [] text = Unreadable -> [items |-> NoItemsWritten, hours |-> <<>>]

\* The files of the directory in ascending order of name: the first n of
\* them, and all of them.
InDirectory(i) == NamesAscending[i].name \in DOMAIN entries_dir
Handled(n) ==
    {i \in 1..Len(NamesAscending) :
        InDirectory(i) /\ Cardinality({j \in 1..(i - 1) : InDirectory(j)}) < n}

\* The triples of category key written in the files from, taken in ascending
\* order of name from position i on.
RECURSIVE TriplesInNameOrder(_, _, _)
TriplesInNameOrder(key, from, i) ==
    IF i > Len(NamesAscending) THEN <<>>
    ELSE (IF i \in from
          THEN LET items == Written(entries_dir[NamesAscending[i].name]).items[key]
               IN [j \in 1..Len(items) |->
                      <<NamesAscending[i].date, items[j][1], items[j][2]>>]
          ELSE <<>>)
         \o TriplesInNameOrder(key, from, i + 1)

\* C13: after any number of files, each category sequence holds the triples
\* of the files handled so far in ascending order of file name, the triples
\* of one file in the order of its lines.
C13_AscendingFilenameOrder ==
    \A key \in Keys :
        aggregated[key] = TriplesInNameOrder(key, Handled(file_index), 1)

\* C13 happens: the file with the prefix, whose date is the earlier one, has
\* been handled after the file of 2025-07-02.
C13_Witness ==
    /\ file_index = 2
    /\ DOMAIN entries_dir =
          { <<"2", "0", "2", "5", "-", "0", "7", "-", "0", "2", ".", "m", "d">>,
            <<"a", "-", "2", "0", "2", "5", "-", "0", "6", "-", "3", "0", ".", "m", "d">> }
    /\ aggregated["accomplished"] =
          << <<<<"2", "0", "2", "5", "-", "0", "7", "-", "0", "2">>, <<"e">>, <<>>>>,
             <<<<"2", "0", "2", "5", "-", "0", "6", "-", "3", "0">>, <<"a">>, <<>>>>,
             <<<<"2", "0", "2", "5", "-", "0", "6", "-", "3", "0">>, <<"b">>, <<"x">>>> >>

\* The readable files of the directory with the date key date.
ReadableWithDate(date) ==
    {i \in 1..Len(NamesAscending) :
        /\ InDirectory(i)
        /\ NamesAscending[i].date = date
        /\ entries_dir[NamesAscending[i].name] # Unreadable}
WithDate(seq, date) == LET Has(t) == t[1] = date IN SelectSeq(seq, Has)
SetMax(set) == CHOOSE n \in set : \A m \in set : m <= n

\* C14: when several readable files have the same date key, the time map
\* has exactly one entry for the key, the worked hours of the file latest in
\* order of name, and every category sequence holds the items of all of
\* these files.
C14_LastTimeWinsItemsAccumulate ==
    pc = "aggregated" =>
        \A i \in 1..Len(NamesAscending) :
            LET date == NamesAscending[i].date
                same == ReadableWithDate(date)
            IN Cardinality(same) > 1 =>
                 /\ Cardinality({n \in 1..Len(aggregated.time_tracking) :
                                    aggregated.time_tracking[n][1] = date}) = 1
                 /\ DictGet(aggregated.time_tracking, date, <<>>) =
                        Written(entries_dir[NamesAscending[SetMax(same)].name]).hours
                 /\ \A key \in Keys :
                        WithDate(aggregated[key], date) = TriplesInNameOrder(key, same, 1)

\* C14 happens: two files of 2025-07-01, the later without worked hours.
C14_Witness ==
    /\ pc = "aggregated"
    /\ entries_dir =
          ( <<"2", "0", "2", "5", "-", "0", "7", "-", "0", "1", "-", "b", ".", "m", "d">>
               :> FullEntry
            @@ <<"2", "0", "2", "5", "-", "0", "7", "-", "0", "1", ".", "m", "d">>
               :> ItemsOnlyEntry )
    /\ aggregated.time_tracking =
          << <<<<"2", "0", "2", "5", "-", "0", "7", "-", "0", "1">>, <<"-">>>> >>
    /\ Len(aggregated["accomplished"]) = 3

\* The dictionary parse_journal_entries returns for a directory.
RECURSIVE AggregateFrom(_, _, _)
AggregateFrom(aggregated_, dir, files) ==
    IF Len(files) = 0 THEN aggregated_
    ELSE AggregateFrom(AggregateFile(aggregated_, Head(files), dir[Head(files)]),
                       dir, Tail(files))
AggregateOf(dir) == AggregateFrom(EmptyAggregate, dir, SortedStrings(DOMAIN dir))
ReadableFiles == {name \in DOMAIN entries_dir : entries_dir[name] # Unreadable}
WithoutUnreadable == [name \in ReadableFiles |-> entries_dir[name]]

\* C15: a file that cannot be read adds no triple and no time entry, and the
\* files after it are handled: the result is that of the same directory
\* without the files that cannot be read.
C15_UnreadableFileLeftOut ==
    /\ \A i \in Handled(file_index) :
          entries_dir[NamesAscending[i].name] = Unreadable =>
              /\ \A key \in Keys : WithDate(aggregated[key], NamesAscending[i].date) =
                      TriplesInNameOrder(key, ReadableWithDate(NamesAscending[i].date)
                                                  \cap Handled(file_index), 1)
              /\ (ReadableWithDate(NamesAscending[i].date) \cap Handled(file_index) = {}
                     => NamesAscending[i].date \notin DictKeys(aggregated.time_tracking))
    /\ pc = "aggregated" => aggregated = AggregateOf(WithoutUnreadable)

\* C15 happens: the file of 2025-07-01 cannot be read and the file of
\* 2025-07-02 after it is in the result.
C15_Witness ==
    /\ pc = "aggregated"
    /\ entries_dir =
          ( <<"2", "0", "2", "5", "-", "0", "7", "-", "0", "1", ".", "m", "d">> :> Unreadable
            @@ <<"2", "0", "2", "5", "-", "0", "7", "-", "0", "2", ".", "m", "d">> :> FullEntry )
    /\ aggregated.time_tracking =
          << <<<<"2", "0", "2", "5", "-", "0", "7", "-", "0", "2">>, <<"8", ".", "5", "h">>>> >>
    /\ Len(aggregated["learned"]) = 1

-----------------------------------------------------------------------------
(* Claims on the dashboard of a directory, checked under SpecAggregate *)

\* C16 as stated: no input is fatal: for every directory, also one with a
\* file name that holds no date or a date that is no calendar date,
\* aggregation followed by get_readme_template returns a dashboard and does
\* not raise.
C16_NeverRaises == pc # "raised"

\* C17: for an empty set of documents (no file, or none that can be read)
\* parse_journal_entries returns four empty sequences and an empty time map,
\* and the dashboard shows "No entries yet", a streak of 0, the total work
\* time "-" and no row.
C17_EmptyDashboard ==
    (ReadableFiles = {} /\ pc \in {"aggregated", "dashboard", "raised"}) =>
        /\ aggregated = EmptyAggregate
        /\ pc # "raised"
        /\ pc = "dashboard" =>
              /\ readme.latest_entry = <<"No entries yet">>
              /\ readme.current_streak = 0
              /\ current_streak = <<0>>
              /\ readme.total_work_time = <<"-">>
              /\ readme.table_rows = <<>>
              /\ table_rows = <<>>

\* C17 happens: the dashboard of the directory without files.
C17_Witness ==
    /\ pc = "dashboard"
    /\ DOMAIN entries_dir = {}
    /\ readme.latest_entry = <<"No entries yet">>
    /\ readme.total_entries = 0

-----------------------------------------------------------------------------
(* Claims on the streak functions, checked under SpecStreak *)

\* The calendar, read off the digits of a date key: the day after a day.
YearMonthDay(date) ==
    <<DigitsVal(SubSeq(date, 1, 4)), DigitsVal(SubSeq(date, 6, 7)),
      DigitsVal(SubSeq(date, 9, 10))>>
LastDayOfMonth(y, m) ==
    <<31, IF y % 4 = 0 /\ (y % 100 # 0 \/ y % 400 = 0) THEN 29 ELSE 28,
      31, 30, 31, 30, 31, 31, 30, 31, 30, 31>>[m]
DayAfter(ymd) ==
    IF ymd[3] < LastDayOfMonth(ymd[1], ymd[2]) THEN <<ymd[1], ymd[2], ymd[3] + 1>>
    ELSE IF ymd[2] < 12 THEN <<ymd[1], ymd[2] + 1, 1>>
    ELSE <<ymd[1] + 1, 1, 1>>
IsDayBefore(earlier, later) == DayAfter(YearMonthDay(earlier)) = YearMonthDay(later)

\* The number of dates, from position j on, of which each but the first is
\* the day before the date in front of it.
RunLength(dates, j) ==
    SetMax({n \in 1..(Len(dates) - j + 1) :
               \A i \in (j + 1)..(j + n - 1) : IsDayBefore(dates[i], dates[i - 1])})

\* C18: on a descending list of different valid dates calculate_current_streak
\* returns 0 for the empty list and else the length of the longest prefix in
\* which each date is the day before its predecessor; the dates after the
\* first gap do not count.
C18_StreakIsLeadingRun ==
    pc \in {"streak", "done"} =>
        current_streak = <<IF Len(sorted_dates) = 0 THEN 0 ELSE RunLength(sorted_dates, 1)>>

\* C18 happens: 10, 09, 08 and 05 July 2025 give 3.
C18_Witness ==
    /\ pc = "streak"
    /\ sorted_dates = <<DateKey(<<2025, 7, 10>>), DateKey(<<2025, 7, 9>>),
                        DateKey(<<2025, 7, 8>>), DateKey(<<2025, 7, 5>>)>>
    /\ current_streak = <<3>>

RECURSIVE Concat(_)
Concat(seqs) == IF Len(seqs) = 0 THEN <<>> ELSE Head(seqs) \o Concat(Tail(seqs))

\* C19: the streak groups partition the date list: put one after the other
\* they give the list, none is empty, the dates next to each other in a
\* group are one day apart, and the last date of a group and the first of
\* the next are more than one day apart.
C19_GroupsPartitionIntoRuns ==
    pc = "done" =>
        /\ Concat(streak_groups) = sorted_dates
        /\ \A g \in 1..Len(streak_groups) :
              LET group == streak_groups[g]
              IN /\ Len(group) > 0
                 /\ \A i \in 2..Len(group) : IsDayBefore(group[i], group[i - 1])
                 /\ g < Len(streak_groups) =>
                       LET next == streak_groups[g + 1][1]
                           last == group[Len(group)]
                       IN next # last /\ ~IsDayBefore(next, last) /\ ~IsDayBefore(last, next)

\* C19 happens: 10, 09, 08 and 05 July 2025 fall into two groups.
C19_Witness ==
    /\ pc = "done"
    /\ streak_groups =
          << <<DateKey(<<2025, 7, 10>>), DateKey(<<2025, 7, 9>>), DateKey(<<2025, 7, 8>>)>>,
             <<DateKey(<<2025, 7, 5>>)>> >>

IsDayRow(row) == row.kind = "day"
DayRows == SelectSeq(table_rows, IsDayRow)
\* The index in the date list of the date at position i of group g.
IndexInList(g, i) == Len(Concat(SubSeq(streak_groups, 1, g - 1))) + i

\* C20: there is one row for each date, in the order of the list; in every
\* group the row of the oldest date shows 1 and each more recent row one
\* more: the row at position i (from 0) from the most recent end of a group
\* shows the length of the group less i.
C20_StreakCountsUpFromOldest ==
    pc = "done" =>
        /\ Len(DayRows) = Len(sorted_dates)
        /\ \A j \in 1..Len(DayRows) :
              /\ DayRows[j].date = sorted_dates[j]
              /\ DayRows[j].streak = RunLength(sorted_dates, j)
        /\ \A g \in 1..Len(streak_groups) :
              /\ DayRows[IndexInList(g, Len(streak_groups[g]))].streak = 1
              /\ \A i \in 1..Len(streak_groups[g]) :
                    DayRows[IndexInList(g, i)].streak = Len(streak_groups[g]) - (i - 1)

\* C20 happens: the rows of 10, 09, 08 and 05 July 2025 show 3, 2, 1 and 1.
C20_Witness ==
    /\ pc = "done"
    /\ sorted_dates = <<DateKey(<<2025, 7, 10>>), DateKey(<<2025, 7, 9>>),
                        DateKey(<<2025, 7, 8>>), DateKey(<<2025, 7, 5>>)>>
    /\ [j \in 1..Len(DayRows) |-> DayRows[j].streak] = <<3, 2, 1, 1>>
    /\ table_rows[4] = [kind |-> "break", days |-> 2]

-----------------------------------------------------------------------------
(* C21: break rows of the dashboard table *)

\* The day number of a date text, by the count of the days of the years
\* and of the months from March on.
CivilDays(date) ==
    LET ymd == YearMonthDay(date)
        y == IF ymd[2] <= 2 THEN ymd[1] - 1 ELSE ymd[1]
        mp == (ymd[2] + 9) % 12
    IN 365 * y + (y \div 4) - (y \div 100) + (y \div 400) + ((153 * mp + 2) \div 5) + ymd[3] - 1

\* The days strictly between the last date of group g and the first date
\* of the group after it.
UnloggedDays(g) ==
    CivilDays(streak_groups[g][Len(streak_groups[g])]) - CivilDays(streak_groups[g + 1][1]) - 1

\* The row after the rows of group g: the dates of the groups up to g and
\* the break rows of the groups before g come first.
BreakPos(g) == IndexInList(g, Len(streak_groups[g])) + g

\* C21: on a descending list of different valid dates the table has, after
\* the rows of every group but the last, exactly one break row, and its
\* number is the count of the days strictly between the group and the next
\* (at least 1); no other row is a break row, none follows the last group,
\* and a table of at least one date has as many rows as there are dates and
\* groups, less one.
C21_OneBreakRowBetweenGroups ==
    pc = "done" =>
        /\ \A g \in 1..(Len(streak_groups) - 1) :
              /\ UnloggedDays(g) >= 1
              /\ table_rows[BreakPos(g)] = [kind |-> "break", days |-> UnloggedDays(g)]
        /\ \A j \in 1..Len(table_rows) :
              table_rows[j].kind = "break" =>
                  \E g \in 1..(Len(streak_groups) - 1) : j = BreakPos(g)
        /\ Len(table_rows) > 0 => table_rows[Len(table_rows)].kind = "day"
        /\ Len(table_rows) =
              IF Len(sorted_dates) = 0 THEN 0
              ELSE Len(sorted_dates) + Len(streak_groups) - 1

\* C21 happens: 10, 08, 05 and 04 July 2025 make three groups, with a break
\* of 1 day and a break of 2 days between them, in 6 rows.
C21_Witness ==
    /\ pc = "done"
    /\ sorted_dates = <<DateKey(<<2025, 7, 10>>), DateKey(<<2025, 7, 8>>),
                        DateKey(<<2025, 7, 5>>), DateKey(<<2025, 7, 4>>)>>
    /\ Len(table_rows) = 6
    /\ table_rows[2] = [kind |-> "break", days |-> 1]
    /\ table_rows[4] = [kind |-> "break", days |-> 2]

-----------------------------------------------------------------------------
(* Work time by week and the chart series *)

\* weekly_data[week_key] once line 314-315 has made sure the key is there.
WeekBucket(weekly_data_, week_key) ==
    DictGet(weekly_data_, week_key, [total_hours |-> FloatZero, entries |-> 0, days |-> <<>>])

\* A faulty variant: the hours are added to the bucket and the day is not
\* counted.
AddHours_NotCounted(bucket, date_str, hours) ==
    [total_hours |-> FloatAdd(bucket.total_hours, hours),
     entries |-> bucket.entries,
     days |-> Append(bucket.days, <<date_str, hours>>)]

\* Lines 321-323.
AddHours(bucket, date_str, hours) ==
    [total_hours |-> FloatAdd(bucket.total_hours, hours),
     entries |-> bucket.entries + 1,
     days |-> Append(bucket.days, <<date_str, hours>>)]

\* A faulty variant: the week starts on the Sunday on or before the day.
WeekStart_Sunday(ordinal) ==
    ordinal - ((Weekday(ordinal) + 1) % 7)

\* entry_date - timedelta(days=entry_date.weekday()) (line 311)
WeekStart(ordinal) ==
    ordinal - Weekday(ordinal)

\* The loop of get_weekly_work_time_data (lines 305-326) over the entries
\* lo..hi, with the dictionary as it stands before them: one half of the
\* entries, then the other.
RECURSIVE WeeklyFrom(_, _, _, _)
WeeklyFrom(time_data_, lo, hi, weekly_data_) ==
    IF lo > hi THEN weekly_data_
    ELSE IF lo = hi
    THEN LET Bucketed(week_key, hours) ==
                 DictSet(weekly_data_, week_key,
                         IF hours = <<>> THEN WeekBucket(weekly_data_, week_key)
                         ELSE AddHours(WeekBucket(weekly_data_, week_key),
                                       time_data_[lo][1], hours[1]))
             Dated_(entry_date) ==
                 IF entry_date = <<>> THEN weekly_data_
                 ELSE Bucketed(DateText(WeekStart(entry_date[1])),
                               FloatOfMatch(time_data_[lo][2]))
         IN IF Len(time_data_[lo][2]) = 0 \/ time_data_[lo][2] = <<"-">> THEN weekly_data_
            ELSE Dated_(StrptimeDate(time_data_[lo][1]))
    ELSE AndThen(WeeklyFrom(time_data_, lo, (lo + hi) \div 2, weekly_data_),
                 LAMBDA half : WeeklyFrom(time_data_, (lo + hi) \div 2 + 1, hi, half))

\* get_weekly_work_time_data(time_data)
get_weekly_work_time_data(time_data_) == WeeklyFrom(time_data_, 1, Len(time_data_), <<>>)

\* The loop at lines 350-359 of create_daily_hours_chart_html: the list
\* all_dates of (ordinal of the day, hours).
AllDatesFrom(time_data_) ==
    LET Point(entry_date, hours) ==
            IF entry_date = <<>> \/ hours = <<>> THEN <<>>
            ELSE <<entry_date[1], hours[1]>>
        Points(all) ==
            SelectSeq(all, LAMBDA point : point # <<>>)
    IN Points([i \in 1..Len(time_data_) |->
                  IF Len(time_data_[i][2]) = 0 \/ time_data_[i][2] = <<"-">> THEN <<>>
                  ELSE Point(StrptimeDate(time_data_[i][1]), FloatOfMatch(time_data_[i][2]))])

\* list.sort(key=lambda x: x[0]): a stable sort, a pair goes after the
\* pairs of earlier days and after the pairs of its day that came before it.
SortByDate(points) ==
    LET Before(j, k) ==
            \/ points[j][1] < points[k][1]
            \/ points[j][1] = points[k][1] /\ j < k
        Place(k) == Cardinality({j \in 1..Len(points) : Before(j, k)}) + 1
    IN [p \in 1..Len(points) |-> points[CHOOSE k \in 1..Len(points) : Place(k) = p]]

\* The days of the daily chart and the weeks of the weekly chart (lines 363
\* and 559).
DailyLimit == 30
WeeklyLimit == 12

\* A faulty variant: the first entries of the list are taken.
LastOf_First(seq, n) ==
    IF Len(seq) > n THEN SubSeq(seq, 1, n) ELSE seq

\* seq[-n:]
LastOf(seq, n) ==
    IF Len(seq) > n THEN SubSeq(seq, Len(seq) - n + 1, Len(seq)) ELSE seq

\* create_daily_hours_chart_html(time_data): the lists dates and hours, as
\* pairs.
DailySeries(time_data_) ==
    LET Labelled(recent_dates) ==
            [k \in 1..Len(recent_dates) |->
                <<DateText(recent_dates[k][1]), recent_dates[k][2]>>]
    IN Labelled(LastOf(SortByDate(AllDatesFrom(time_data_)), DailyLimit))

\* create_weekly_hours_chart_html(time_data): the lists weeks and hours, as
\* pairs.
WeeklySeries(weekly_data_) ==
    LET Labelled(sorted_weeks) ==
            [k \in 1..Len(sorted_weeks) |->
                <<<<"Week of ">> \o sorted_weeks[k],
                  DictGet(weekly_data_, sorted_weeks[k], <<>>).total_hours>>]
    IN Labelled(LastOf(SortedStrings(DictKeys(weekly_data_)), WeeklyLimit))

-----------------------------------------------------------------------------
(* Time maps: aggregated_data["time_tracking"] with up to MaxEntries days *)

MaxEntries == 32

\* The worked hours of a run of days, repeated along the run.
WorkPatterns ==
    { << <<"2", ".", "1", "h">>, <<"2", ".", "2", "h">>, <<"2", ".", "7", "h">> >>,
      << <<"8", "h">>, <<"-">>, <<"7", ".", "5", "h">> >>,
      << <<"-">> >> }

\* A Monday and a Sunday: 30 June 2025 and 29 December 2024.
RunStarts == {Ordinal(2025, 6, 30), Ordinal(2024, 12, 29)}

\* An entry whose key is no date, as a file name without a date gives it.
UndatedEntry == << <<<<"n", "o", "t", "e", "s">>, <<"1", ".", "5", "h">>>> >>

\* n entries, one every step days from the day first, set in ascending or
\* in descending order of the days.
TimeMapOf(first, step, n, pattern, descending) ==
    [k \in 1..n |->
        LET day == IF descending THEN n - k ELSE k - 1
        IN <<DateText(first + day * step), pattern[(day % Len(pattern)) + 1]>>]

\* The runs of dated entries, and the short ones after an undated entry.
MaxUndated == 2
DatedRuns ==
    { TimeMapOf(first, step, n, pattern, descending) :
        first \in RunStarts, step \in {1, 7}, n \in 0..MaxEntries,
        pattern \in WorkPatterns, descending \in BOOLEAN }
TimeMaps ==
    DatedRuns \cup {UndatedEntry \o run : run \in {r \in DatedRuns : Len(r) <= MaxUndated}}

-----------------------------------------------------------------------------
(* calculate_total_work_time, create_daily_hours_chart_html and
   create_weekly_hours_chart_html on every time map above (lines 205, 229 and
   233 of aggregate_command) *)

InitRollup ==
    /\ pc = "start"
    /\ \E time_data_ \in TimeMaps :
          aggregated = [EmptyAggregate EXCEPT !.time_tracking = time_data_]
    /\ entries_dir = <<>>
    /\ file_index = 0
    /\ content = <<>>
    /\ section_content = NoSections
    /\ sections = NoSections
    /\ time_section = <<>>
    /\ time_data = NoTimeData
    /\ start_time = None
    /\ end_time = None
    /\ extra_hours = None
    /\ duration = <<>>
    /\ work_hours = <<>>
    /\ work_time = None
    /\ NoItems /\ NoDashboard /\ NoRollups /\ NoCommand

CalculateTotalWorkTime ==
    /\ pc = "start"
    /\ total_work_time' = calculate_total_work_time(aggregated.time_tracking)
    /\ pc' = "total"
    /\ UNCHANGED <<weekly_data, daily_series, weekly_series, category_table,
                   docVars, calcVars, itemVars, aggVars, dashVars, cmdVars>>

CreateDailyHoursChart ==
    /\ pc = "total"
    /\ daily_series' = DailySeries(aggregated.time_tracking)
    /\ pc' = "daily"
    /\ UNCHANGED <<weekly_data, total_work_time, weekly_series, category_table,
                   docVars, calcVars, itemVars, aggVars, dashVars, cmdVars>>

\* Line 554 of create_weekly_hours_chart_html.
GetWeeklyWorkTimeData ==
    /\ pc = "daily"
    /\ weekly_data' = get_weekly_work_time_data(aggregated.time_tracking)
    /\ pc' = "weekly"
    /\ UNCHANGED <<total_work_time, daily_series, weekly_series, category_table,
                   docVars, calcVars, itemVars, aggVars, dashVars, cmdVars>>

\* Lines 559-564 of create_weekly_hours_chart_html.
CreateWeeklyHoursChart ==
    /\ pc = "weekly"
    /\ weekly_series' = WeeklySeries(weekly_data)
    /\ pc' = "done"
    /\ UNCHANGED <<weekly_data, total_work_time, daily_series, category_table,
                   docVars, calcVars, itemVars, aggVars, dashVars, cmdVars>>

NextRollup ==
    \/ CalculateTotalWorkTime
    \/ CreateDailyHoursChart
    \/ GetWeeklyWorkTimeData
    \/ CreateWeeklyHoursChart
SpecRollup == InitRollup /\ [][NextRollup]_vars

RollupTypeOK == pc \in {"start", "total", "daily", "weekly", "done"}

-----------------------------------------------------------------------------
(* Claims on the weekly buckets, the total and the chart series, checked
   under SpecRollup *)

\* The entries of the time map that have a date as key and worked hours.
WorkedEntries(time_data_) ==
    {i \in 1..Len(time_data_) :
        time_data_[i][2] # <<"-">> /\ StrptimeDate(time_data_[i][1]) # <<>>}

\* The Monday on or before a day: the one day of the seven up to it that is
\* a Monday.
MondayOnOrBefore(ordinal) == CHOOSE d \in (ordinal - 6)..ordinal : Weekday(d) = 0

\* The hours of a per-day list added up from the first to the last.
RECURSIVE SumOfDays(_)
SumOfDays(days) ==
    IF Len(days) = 0 THEN FloatZero
    ELSE FloatAdd(SumOfDays(SubSeq(days, 1, Len(days) - 1)), days[Len(days)][2])

\* C22: get_weekly_work_time_data puts every date with worked hours into the
\* bucket of the Monday on or before it, once and with its hours, a bucket
\* holds nothing else, and in every bucket total_hours is the sum of the
\* hours of its per-day list and entries is the length of that list.
C22_BucketOfTheMondayBefore ==
    pc \in {"weekly", "done"} =>
       LET InBucket(date_str, hours, monday) ==
               /\ monday \in DictKeys(weekly_data)
               /\ \E k \in 1..Len(DictGet(weekly_data, monday, <<>>).days) :
                      DictGet(weekly_data, monday, <<>>).days[k] = <<date_str, hours>>
           Bucket(monday, bucket, worked_dates) ==
               /\ Weekday(monday) = 0
               /\ Len(bucket.days) > 0
               /\ bucket.entries = Len(bucket.days)
               /\ bucket.total_hours = SumOfDays(bucket.days)
               /\ \A k \in 1..Len(bucket.days) :
                     /\ bucket.days[k][1] \in worked_dates
                     /\ \A j \in 1..Len(bucket.days) :
                           bucket.days[j][1] = bucket.days[k][1] => j = k
                     /\ StrptimeDate(bucket.days[k][1])[1] \in monday..(monday + 6)
           Buckets(time_data_, worked) ==
               /\ \A i \in worked :
                     InBucket(time_data_[i][1], FloatOfMatch(time_data_[i][2])[1],
                              DateText(MondayOnOrBefore(StrptimeDate(time_data_[i][1])[1])))
               /\ \A w \in 1..Len(weekly_data) :
                     /\ \A v \in 1..Len(weekly_data) :
                           weekly_data[v][1] = weekly_data[w][1] => v = w
                     /\ Bucket(StrptimeDate(weekly_data[w][1])[1], weekly_data[w][2],
                               {time_data_[i][1] : i \in worked})
       IN Buckets(aggregated.time_tracking, WorkedEntries(aggregated.time_tracking))

\* Nine days from Sunday 29 December 2024 on, all with hours: the Sunday is
\* in the week of 23 December, the seven days after it are the week of 30
\* December, and Monday 6 January has a week of its own.
C22_Witness ==
    /\ pc = "done"
    /\ Len(aggregated.time_tracking) = 9
    /\ Len(weekly_data) = 3
    /\ weekly_data[1][1] = DateText(Ordinal(2024, 12, 23))
    /\ weekly_data[1][2].days[1][1] = DateText(Ordinal(2024, 12, 29))
    /\ weekly_data[2][1] = DateText(Ordinal(2024, 12, 30))
    /\ weekly_data[2][2].entries = 7
    /\ weekly_data[2][2].days[7][1] = DateText(Ordinal(2025, 1, 5))
    /\ weekly_data[3][1] = DateText(Ordinal(2025, 1, 6))

\* The worked hours of an entry in tenths of an hour, for a text of digits
\* with at most one digit after a point: <<>> for "-" and for a text
\* without a number.
TenthsOf(work_time_) ==
    LET Tenths(r) ==
            IF r = <<>> THEN <<>>
            ELSE IF r[2] = r[1] THEN <<10 * DigitsVal(SubSeq(work_time_, 1, r[1] - 1))>>
            ELSE <<10 * DigitsVal(SubSeq(work_time_, 1, r[1] - 1))
                   + DigitsVal(SubSeq(work_time_, r[1] + 1, r[2] - 1))>>
    IN IF work_time_ = <<"-">> THEN <<>> ELSE Tenths(Match(ExtraPattern, work_time_, 1))

\* The tenths of an hour of the entries lo..hi of a time map, and how many
\* of them have worked hours.
RECURSIVE SumOfTenths(_, _, _)
SumOfTenths(time_data_, lo, hi) ==
    IF lo > hi THEN 0
    ELSE IF lo = hi
    THEN (IF TenthsOf(time_data_[lo][2]) = <<>> THEN 0 ELSE TenthsOf(time_data_[lo][2])[1])
    ELSE SumOfTenths(time_data_, lo, (lo + hi) \div 2)
         + SumOfTenths(time_data_, (lo + hi) \div 2 + 1, hi)
DaysWithHours(time_data_) ==
    Cardinality({i \in 1..Len(time_data_) : TenthsOf(time_data_[i][2]) # <<>>})

\* C23: calculate_total_work_time returns "-" exactly when no entry has
\* worked hours, and otherwise the sum of the worked hours, written as a
\* day's value is (whole hours without a decimal, else one decimal), with
\* the number of days that have worked hours; the "-" entries count for
\* nothing.
C23_SumInTheFormatOfADay ==
    pc \in {"total", "daily", "weekly", "done"} =>
       LET Total(tenths, days) ==
               IF days = 0 THEN <<"-">>
               ELSE FormatHours(6 * tenths) \o <<" ", "(">> \o IntToStr(days)
                    \o <<" ", "days", ")">>
       IN total_work_time
             = Total(SumOfTenths(aggregated.time_tracking, 1, Len(aggregated.time_tracking)),
                     DaysWithHours(aggregated.time_tracking))

\* C25: the daily series holds the (date, hours) pairs of the entries with
\* worked hours, the DailyLimit most recent of them when there are more, in
\* ascending order of the dates; the weekly series holds the weeks of these
\* entries with the total of their bucket, the WeeklyLimit most recent of
\* them when there are more, in ascending order of the week starts; a time
\* map without worked hours gives two empty series.
C25_MostRecentInAscendingOrder ==
    pc = "done" =>
       LET Ascending(days) ==
               \A k \in 1..(Len(days) - 1) : days[k] # <<>> /\ days[k][1] < days[k + 1][1]
           MostRecent(days, all) ==
               \A d \in all : (\A k \in 1..Len(days) : days[k][1] # d) =>
                                 (\A k \in 1..Len(days) : d < days[k][1])
           Daily(time_data_, worked, days) ==
               /\ Len(daily_series) = Min2(DailyLimit, Cardinality(worked))
               /\ Ascending(days)
               /\ MostRecent(days, {StrptimeDate(time_data_[i][1])[1] : i \in worked})
               /\ \A k \in 1..Len(daily_series) :
                     \E i \in worked :
                        /\ time_data_[i][1] = daily_series[k][1]
                        /\ FloatOfMatch(time_data_[i][2])[1] = daily_series[k][2]
           Weekly(mondays, days) ==
               /\ Len(weekly_series) = Min2(WeeklyLimit, Cardinality(mondays))
               /\ Ascending(days)
               /\ MostRecent(days, mondays)
               /\ \A k \in 1..Len(weekly_series) :
                     /\ days[k][1] \in mondays
                     /\ weekly_series[k][1] = <<"Week of ">> \o DateText(days[k][1])
                     /\ weekly_series[k][2]
                           = DictGet(weekly_data, DateText(days[k][1]), <<>>).total_hours
           Series(time_data_, worked) ==
               /\ Daily(time_data_, worked,
                        [k \in 1..Len(daily_series) |-> StrptimeDate(daily_series[k][1])])
               /\ Weekly({MondayOnOrBefore(StrptimeDate(time_data_[i][1])[1]) : i \in worked},
                         [k \in 1..Len(weekly_series) |->
                             StrptimeDate(Tail(weekly_series[k][1]))])
               /\ worked = {} => daily_series = <<>> /\ weekly_series = <<>>
       IN Series(aggregated.time_tracking, WorkedEntries(aggregated.time_tracking))

\* 32 Sundays with hours, the latest first in the map: the daily series is
\* the last 30 of them from the third Sunday on, the weekly series the last
\* 12 weeks from the week of the 21st Sunday on.
C25_Witness ==
    /\ pc = "done"
    /\ Len(aggregated.time_tracking) = DailyLimit + 2
    /\ aggregated.time_tracking[1][1] = DateText(Ordinal(2024, 12, 29) + 7 * (DailyLimit + 1))
    /\ aggregated.time_tracking[1][2] # <<"-">>
    /\ aggregated.time_tracking[2][2] # <<"-">>
    /\ Len(daily_series) = DailyLimit
    /\ daily_series[1][1] = DateText(Ordinal(2024, 12, 29) + 7 * 2)
    /\ daily_series[DailyLimit][1] = aggregated.time_tracking[1][1]
    /\ Len(weekly_series) = WeeklyLimit
    /\ weekly_series[1][1] = <<"Week of ">> \o DateText(Ordinal(2024, 12, 23) + 7 * 20)
    /\ weekly_series[WeeklyLimit][1]
          = <<"Week of ">> \o DateText(Ordinal(2024, 12, 23) + 7 * (DailyLimit + 1))

-----------------------------------------------------------------------------
(* get_aggregated_table_template: the table of one category *)

\* f"{text:width}" of a string: spaces are added after a text shorter than
\* the width, a longer text is kept whole.
Pad(text, width) == text \o [i \in 1..(width - Len(text)) |-> " "]

\* Line 238: one row of the table.
TableRow(date_display, entry, comment_display) ==
    <<"|", " ">> \o Pad(date_display, 10) \o <<" ", "|", " ">> \o Pad(entry, 38)
    \o <<" ", "|", " ">> \o Pad(comment_display, 9) \o <<" ", "|">>

\* The four lines above the rows (lines 226-229 and 232).
column_titles == <<"| Date       | Entry                                  | Comment   |">>
column_rule == <<"|------------|----------------------------------------|-----------|">>
TableHead(title) == << <<"#", " ">> \o title, <<>>, column_titles, column_rule >>

\* A faulty variant: prev_date stays what the first item made it.
RECURSIVE TableRowsFrom_FirstDateKept(_, _, _)
TableRowsFrom_FirstDateKept(entries_, i, prev_date) ==
    IF i > Len(entries_) THEN <<>>
    ELSE << TableRow(IF entries_[i][1] # prev_date THEN entries_[i][1] ELSE <<>>,
                     entries_[i][2],
                     IF Falsy(entries_[i][3]) THEN <<>> ELSE entries_[i][3]) >>
         \o TableRowsFrom_FirstDateKept(entries_, i + 1,
                                        IF prev_date = None THEN entries_[i][1]
                                        ELSE prev_date)

\* The loop at lines 235-239 from item i on, prev_date as it stands before
\* it.
RECURSIVE TableRowsFrom(_, _, _)
TableRowsFrom(entries_, i, prev_date) ==
    IF i > Len(entries_) THEN <<>>
    ELSE << TableRow(IF entries_[i][1] # prev_date THEN entries_[i][1] ELSE <<>>,
                     entries_[i][2],
                     IF Falsy(entries_[i][3]) THEN <<>> ELSE entries_[i][3]) >>
         \o TableRowsFrom(entries_, i + 1, entries_[i][1])

\* get_aggregated_table_template(title, entries): the lines of the returned
\* text, each of which ends with a newline.
get_aggregated_table_template(title, entries_) ==
    IF Len(entries_) = 0 THEN TableHead(title)
    ELSE TableHead(title) \o TableRowsFrom(entries_, 1, None)

\* file_mappings of aggregate_command: the titles of the four tables.
Titles ==
    [accomplished |-> <<"What I accomplished">>,
     blockers |-> <<"What didn't go well / blockers">>,
     learned |-> <<"What I learned">>,
     improve |-> <<"What to improve">>]

\* Lists of up to MaxRows items (date, entry, comment) on three days.
MaxRows == 4
TableDates == {DateText(Ordinal(2025, 7, d)) : d \in 1..3}
TableItems ==
    { <<date, entry[1], entry[2]>> :
        date \in TableDates, entry \in {<< <<"a">>, <<>> >>, << <<"b", "c">>, <<"d">> >>} }
TableLists == UNION { [1..n -> TableItems] : n \in 0..MaxRows }

InitTable ==
    /\ pc = "start"
    /\ \E key \in Keys : \E entries_ \in TableLists :
          aggregated = [EmptyAggregate EXCEPT ![key] = entries_]
    /\ entries_dir = <<>>
    /\ file_index = 0
    /\ content = <<>>
    /\ section_content = NoSections
    /\ sections = NoSections
    /\ time_section = <<>>
    /\ time_data = NoTimeData
    /\ start_time = None
    /\ end_time = None
    /\ extra_hours = None
    /\ duration = <<>>
    /\ work_hours = <<>>
    /\ work_time = None
    /\ NoItems /\ NoDashboard /\ NoRollups /\ NoCommand

\* Lines 195-200 of aggregate_command: the four tables.
GetAggregatedTableTemplate ==
    /\ pc = "start"
    /\ category_table' =
          [key \in Keys |-> get_aggregated_table_template(Titles[key], aggregated[key])]
    /\ pc' = "done"
    /\ UNCHANGED <<weekly_data, total_work_time, daily_series, weekly_series,
                   docVars, calcVars, itemVars, aggVars, dashVars, cmdVars>>

NextTable == GetAggregatedTableTemplate
SpecTable == InitTable /\ [][NextTable]_vars

\* The date cell of a row of the table: the ten places after "| ".
DateCell(row) == SubSeq(row, 3, 12)

\* C24: get_aggregated_table_template emits one row per item, in the order
\* of the items, after the four lines of the head; the date cell of a row
\* is blank exactly when the item before it has the same date, and holds
\* the date of the item otherwise, also when the date was printed before.
C24_DateOnFirstRowOfEachRun ==
    pc = "done" =>
       \A key \in Keys :
          /\ Len(category_table[key]) = 4 + Len(aggregated[key])
          /\ SubSeq(category_table[key], 1, 4) = TableHead(Titles[key])
          /\ \A i \in 1..Len(aggregated[key]) :
                LET item == aggregated[key][i]
                    row == category_table[key][4 + i]
                    same == i > 1 /\ aggregated[key][i - 1][1] = item[1]
                IN /\ (DateCell(row) = Pad(<<>>, 10)) <=> same
                   /\ ~same => DateCell(row) = item[1]
                   /\ SubSeq(row, 13, Len(row))
                         = <<" ", "|", " ">> \o Pad(item[2], 38) \o <<" ", "|", " ">>
                           \o Pad(item[3], 9) \o <<" ", "|">>

\* Items of 1, 1, 2 and 1 July: the date of the second row is blank, the
\* fourth row prints 1 July again.
C24_Witness ==
    /\ pc = "done"
    /\ Len(aggregated.learned) = 4
    /\ aggregated.learned[1][1] = DateText(Ordinal(2025, 7, 1))
    /\ aggregated.learned[2][1] = DateText(Ordinal(2025, 7, 1))
    /\ aggregated.learned[3][1] = DateText(Ordinal(2025, 7, 2))
    /\ aggregated.learned[4][1] = DateText(Ordinal(2025, 7, 1))
    /\ DateCell(category_table.learned[5]) = DateText(Ordinal(2025, 7, 1))
    /\ DateCell(category_table.learned[6]) = Pad(<<>>, 10)
    /\ DateCell(category_table.learned[7]) = DateText(Ordinal(2025, 7, 2))
    /\ DateCell(category_table.learned[8]) = DateText(Ordinal(2025, 7, 1))

-----------------------------------------------------------------------------
(* get_daily_template: the entry today_command writes, filled in and parsed *)

\* The characters that stand in templates.py where the headings of the
\* parser have an emoji: the bytes of each emoji read in a one-byte
\* encoding, one token per character, named by its code point.
TemplateCalendar == <<"U+00F0", "U+0178", "U+2014", "U+201C", "U+00EF", "U+00B8">>
TemplateClock == <<"U+00E2", "U+00B0">>
TemplateEmoji ==
    [accomplished |-> <<"U+00E2", "U+0153", "U+2026">>,
     blockers |-> <<"U+00F0", "U+0178", "U+00A4", "U+201D">>,
     learned |-> <<"U+00F0", "U+0178", "U+201C", "U+0161">>,
     improve |-> <<"U+00F0", "U+0178", "U+0161", "U+20AC">>]

\* A line of the template: a heading of a category, and a label of the Time
\* Tracking block with nothing after it.
TemplateHeading(key) == <<"#", "#", " ">> \o TemplateEmoji[key] \o <<" ", LabelText[key], "\n">>
TemplateField(label) == <<"-", " ", "*", "*", label, "*", "*", ":", " ", "\n">>

\* get_daily_template(date_str)
get_daily_template(date_str) ==
    <<"#", " ">> \o TemplateCalendar \o <<" ">> \o date_str \o <<"\n", "\n">>
    \o <<"#", "#", " ">> \o TemplateClock \o <<" ", "Time Tracking", "\n", "\n">>
    \o TemplateField("Start time") \o TemplateField("End time")
    \o TemplateField("Extra hours") \o <<"\n">>
    \o TemplateHeading("accomplished") \o <<"\n">>
    \o TemplateHeading("blockers") \o <<"\n">>
    \o TemplateHeading("learned") \o <<"\n">>
    \o TemplateHeading("improve")

\* The editing of an entry: text put in after position p, a value written
\* at the end of the line of a label, and item lines added below the
\* heading line of a category.
InsertAfter(text, p, what) == SubSeq(text, 1, p) \o what \o SubSeq(text, p + 1, Len(text))
EndOfLineOf(text, token) ==
    CHOOSE q \in 1..Len(text) :
       /\ text[q] = "\n"
       /\ \E p \in 1..q : text[p] = token /\ \A r \in p..q : text[r] = "\n" => r = q
WriteValue(text, label, value) == InsertAfter(text, EndOfLineOf(text, label) - 1, value)
AddItems(text, key, n) == InsertAfter(text, EndOfLineOf(text, LabelText[key]), ItemLines(key, n))

\* The template of a day with the three values written (<<>> for a value
\* left out) and count[key] items under the heading of each key.
FilledTemplate(date_str, s, e, x, count) ==
    AddItems(AddItems(AddItems(AddItems(
        WriteValue(WriteValue(WriteValue(get_daily_template(date_str),
                                         "Start time", s), "End time", e), "Extra hours", x),
        "accomplished", count["accomplished"]), "blockers", count["blockers"]),
        "learned", count["learned"]), "improve", count["improve"])

TemplateDay == DateText(Ordinal(2025, 7, 1))
TemplateStarts == {<<>>, HHMM(9, 0)}
TemplateEnds == {<<>>, HHMM(17, 0)}
TemplateExtras == {<<>>, <<"1", "h">>}
TemplateCounts == [Keys -> 0..MaxItems]
FilledTemplates ==
    { FilledTemplate(TemplateDay, s, e, x, count) :
        s \in TemplateStarts, e \in TemplateEnds, x \in TemplateExtras,
        count \in TemplateCounts }

InitTemplate == InitDocument(FilledTemplates)

\* Lines 278-279 of parse_journal_entries on the entry.
ParseTemplateSections ==
    /\ pc = "start"
    /\ section_content' = SectionContent(content)
    /\ sections' = parse_entry_sections(content)
    /\ pc' = "sections"
    /\ UNCHANGED <<content, time_section, time_data, calcVars, itemVars, aggVars,
                   dashVars, rollVars, cmdVars>>

\* Lines 287-292 of parse_journal_entries on the entry.
ParseTemplateTime ==
    /\ pc = "sections"
    /\ time_section' = (LET ts == TimeSection(content) IN IF ts = <<>> THEN <<>> ELSE ts[1])
    /\ \E parsed \in {parse_time_tracking(content)} :
          /\ time_data' = parsed
          /\ start_time' = parsed["start_time"]
          /\ end_time' = parsed["end_time"]
          /\ extra_hours' = parsed["extra_hours"]
          /\ \E r \in {calculate_work_time(parsed["start_time"], parsed["end_time"],
                                           parsed["extra_hours"])} :
                /\ work_time' = r.result
                /\ duration' = r.duration
                /\ work_hours' = r.work_hours
    /\ pc' = "done"
    /\ UNCHANGED <<content, section_content, sections, itemVars, aggVars, dashVars,
                   rollVars, cmdVars>>

NextTemplate == ParseTemplateSections \/ ParseTemplateTime
SpecTemplate == InitTemplate /\ [][NextTemplate]_vars

\* The items of n item lines under the heading of key, as they are written.
WrittenItems(key, n) ==
    [j \in 1..n |-> IF j % 2 = 1 THEN << <<ItemLetter[key]>>, <<>> >>
                    ELSE << <<ItemLetter[key]>>, <<"x">> >>]

\* C27: an entry made by get_daily_template and filled in is parsed back:
\* every category gets the items written below its heading, in their
\* order, and the three values are those written after the labels (None
\* for one left out); the template as it is written gives four empty lists
\* and the worked hours "-".
C27_FilledTemplateParsedBack ==
    pc = "done" =>
       \A s \in TemplateStarts, e \in TemplateEnds, x \in TemplateExtras :
          \A count \in TemplateCounts :
             content = FilledTemplate(TemplateDay, s, e, x, count) =>
                /\ \A key \in Keys : sections[key] = WrittenItems(key, count[key])
                /\ time_data = [start_time |-> IF s = <<>> THEN None ELSE s,
                                end_time |-> IF e = <<>> THEN None ELSE e,
                                extra_hours |-> IF x = <<>> THEN None ELSE x]
                /\ content = get_daily_template(TemplateDay) => work_time = <<"-">>

-----------------------------------------------------------------------------
(* The dashboard of directories of up to MaxLogged files on three days in a
   row, a day with nothing but a time record among them *)

MaxLogged == 3

\* The file names whose date key is a day of the calendar.
LoggedNames ==
    {name \in FileNames : StrptimeDate(get_date_from_filename(name)) # <<>>}
LoggedDirectories ==
    UNION { [names -> JournalTexts] :
              names \in {n \in SUBSET LoggedNames : Cardinality(n) <= MaxLogged} }

InitLogged ==
    /\ pc = "start"
    /\ entries_dir \in LoggedDirectories
    /\ file_index = 0
    /\ aggregated = EmptyAggregate
    /\ content = <<>>
    /\ section_content = NoSections
    /\ sections = NoSections
    /\ time_section = <<>>
    /\ time_data = NoTimeData
    /\ start_time = None
    /\ end_time = None
    /\ extra_hours = None
    /\ duration = <<>>
    /\ work_hours = <<>>
    /\ work_time = None
    /\ NoItems /\ NoDashboard /\ NoRollups /\ NoCommand

NextLogged == ProcessEntryFile \/ ReturnAggregated \/ GetReadmeTemplate
SpecLogged == InitLogged /\ [][NextLogged]_vars

\* The date keys of the files with at least one category item, and those of
\* the files that have brought hours into the time map.
ItemDates ==
    { get_date_from_filename(name) :
        name \in {n \in ReadableFiles :
                     \E key \in Keys : Len(ParsedTexts[entries_dir[n]].sections[key]) > 0} }
TimeDates == {d \in DictKeys(aggregated.time_tracking) :
                 DictGet(aggregated.time_tracking, d, <<"-">>) # <<"-">>}

\* The places of the rows of days in the table of the dashboard.
RowsOfDays == {i \in 1..Len(table_rows) : table_rows[i].kind = "day"}

\* C28: the rows of days of the dashboard and its count of days logged cover
\* the date keys with at least one category item, each once and from the
\* latest to the earliest; a date key that only the time map holds has no
\* row and is not counted, a break row stands between the logged days around
\* it and the streak starts again at 1 on the logged day after it, and its
\* hours are part of the total work time.
C28_RowsOfTheDaysWithItems ==
    pc = "dashboard" =>
       /\ {table_rows[i].date : i \in RowsOfDays} = ItemDates
       /\ Cardinality(RowsOfDays) = Cardinality(ItemDates)
       /\ \A i, j \in RowsOfDays : i < j => StrLess(table_rows[j].date, table_rows[i].date)
       /\ readme.days_logged = Cardinality(ItemDates)
       /\ \A d \in TimeDates \ ItemDates :
             /\ \A i \in RowsOfDays : table_rows[i].date # d
             /\ \A i, j \in RowsOfDays :
                   (StrLess(d, table_rows[i].date) /\ StrLess(table_rows[j].date, d)) =>
                      \E b \in (i + 1)..(j - 1) : table_rows[b].kind = "break"
             /\ \A i \in RowsOfDays :
                   (/\ StrLess(d, table_rows[i].date)
                    /\ \A j \in RowsOfDays : ~(StrLess(d, table_rows[j].date)
                                            /\ StrLess(table_rows[j].date, table_rows[i].date))
                    /\ \E j \in RowsOfDays : StrLess(table_rows[j].date, d))
                   => table_rows[i].streak = 1
             /\ readme.total_work_time
                   # calculate_total_work_time(
                        SelectSeq(aggregated.time_tracking, LAMBDA kv : kv[1] # d))

\* Items on 30 June and on 2 July, on 1 July a time record and nothing else:
\* two rows of days with a break row between them, two days logged, and the
\* hours of three days in the total.
C28_Witness ==
    /\ pc = "dashboard"
    /\ ItemDates = {DateText(Ordinal(2025, 6, 30)), DateText(Ordinal(2025, 7, 2))}
    /\ TimeDates \ ItemDates = {DateText(Ordinal(2025, 7, 1))}
    /\ Len(table_rows) = 3
    /\ table_rows[1].kind = "day" /\ table_rows[1].date = DateText(Ordinal(2025, 7, 2))
    /\ table_rows[1].streak = 1
    /\ table_rows[2].kind = "break"
    /\ table_rows[3].kind = "day" /\ table_rows[3].date = DateText(Ordinal(2025, 6, 30))
    /\ readme.days_logged = 2
    /\ Len(aggregated.time_tracking) = 3

-----------------------------------------------------------------------------
(* today_command: the entry of today *)

\* The runs of today_command and the edits of the entry in one behaviour.
MaxRuns == 3
MaxEdits == 2

\* The editors today_command is called with: none, and one.
Editors == {None, <<"v", "i">>}

\* The state today_command works on: journal_root is what get_journal_root
\* returns (None without a configuration file), root_exists and
\* entries_exists tell whether the directories are there, today_file is the
\* text of entries/<today>.md (None when there is no such file).  The other
\* fields record the last run: its local file_existed (<<>> when the run did
\* not get that far), whether write_text raised, and whether the editor was
\* started.
JournalStates ==
    { [journal_root |-> root, root_exists |-> r, entries_exists |-> e, today_file |-> f,
       file_existed |-> <<>>, raised |-> FALSE, opened |-> FALSE, runs |-> 0, edits |-> 0] :
        root \in {None, <<"j", "o", "u", "r", "n", "a", "l">>},
        r \in BOOLEAN, e \in BOOLEAN, f \in {None, <<>>, FullEntry} }

\* A faulty variant: the template is written whether the file exists or not.
today_command_WritesAgain(journal_, editor) ==
    LET Ran(j) == [j EXCEPT !.runs = @ + 1]
        Returned == [journal_ EXCEPT !.file_existed = <<>>, !.raised = FALSE, !.opened = FALSE]
    IN IF journal_.journal_root = None THEN Ran(Returned)
       ELSE IF ~journal_.root_exists THEN Ran(Returned)
       ELSE IF ~journal_.entries_exists
       THEN Ran([Returned EXCEPT !.file_existed = <<FALSE>>, !.raised = TRUE])
       ELSE Ran([Returned EXCEPT !.file_existed = <<journal_.today_file # None>>,
                                 !.today_file = get_daily_template(TemplateDay),
                                 !.opened = ~Falsy(editor)])

\* today_command(editor), today being TemplateDay.  Without the directory
\* entries the file does not exist and write_text raises FileNotFoundError.
today_command(journal_, editor) ==
    LET Ran(j) == [j EXCEPT !.runs = @ + 1]
        Returned == [journal_ EXCEPT !.file_existed = <<>>, !.raised = FALSE, !.opened = FALSE]
    IN IF journal_.journal_root = None THEN Ran(Returned)
       ELSE IF ~journal_.root_exists THEN Ran(Returned)
       ELSE IF journal_.today_file # None
       THEN Ran([Returned EXCEPT !.file_existed = <<TRUE>>, !.opened = ~Falsy(editor)])
       ELSE IF ~journal_.entries_exists
       THEN Ran([Returned EXCEPT !.file_existed = <<FALSE>>, !.raised = TRUE])
       ELSE Ran([Returned EXCEPT !.file_existed = <<FALSE>>,
                                 !.today_file = get_daily_template(TemplateDay),
                                 !.opened = ~Falsy(editor)])

\* What an edit leaves in the file of today.
EditedTexts ==
    { FilledTemplate(TemplateDay, HHMM(9, 0), <<>>, <<>>, [key \in Keys |-> 0]),
      FullEntry, <<>> }

InitToday ==
    /\ pc = "start"
    /\ journal \in {j \in JournalStates :
                      /\ j.entries_exists => j.root_exists
                      /\ j.today_file # None => j.entries_exists}
    /\ push = <<>>
    /\ content = <<>>
    /\ section_content = NoSections
    /\ sections = NoSections
    /\ time_section = <<>>
    /\ time_data = NoTimeData
    /\ start_time = None
    /\ end_time = None
    /\ extra_hours = None
    /\ duration = <<>>
    /\ work_hours = <<>>
    /\ work_time = None
    /\ NoItems /\ NoAggregate /\ NoDashboard /\ NoRollups

\* One run of today_command.
TodayCommand ==
    /\ journal.runs < MaxRuns
    /\ \E editor \in Editors : journal' = today_command(journal, editor)
    /\ UNCHANGED <<pc, push, docVars, calcVars, itemVars, aggVars, dashVars, rollVars>>

\* The user changes the entry of today, in the editor of line 155 or in
\* another one.
EditEntry ==
    /\ journal.today_file # None
    /\ journal.edits < MaxEdits
    /\ \E text \in EditedTexts \ {journal.today_file} :
          journal' = [journal EXCEPT !.today_file = text, !.edits = @ + 1]
    /\ UNCHANGED <<pc, push, docVars, calcVars, itemVars, aggVars, dashVars, rollVars>>

NextToday == TodayCommand \/ EditEntry
SpecToday == InitToday /\ [][NextToday]_vars

\* C29: a run of today_command leaves an entry of today that exists as it
\* is, also after an earlier run and an edit; it changes the file only by
\* writing the template where there was no file; and it writes nothing
\* when no journal root is configured or the root directory is missing.
C29_ExistingEntryKept ==
    [][journal'.runs = journal.runs + 1 =>
          /\ journal.today_file # None => journal'.today_file = journal.today_file
          /\ journal'.today_file # journal.today_file =>
                /\ journal.today_file = None
                /\ journal'.today_file = get_daily_template(TemplateDay)
                /\ journal.journal_root # None /\ journal.root_exists
          /\ (journal.journal_root = None \/ ~journal.root_exists) =>
                /\ journal'.today_file = journal.today_file
                /\ journal'.file_existed = <<>>]_vars

\* The first run has written the template, the user has made a full entry
\* of it, and the second run has found the file and left the entry.
C29_Witness ==
    /\ journal.runs = 2
    /\ journal.edits = 1
    /\ journal.file_existed = <<TRUE>>
    /\ journal.today_file = FullEntry
    /\ journal.opened

-----------------------------------------------------------------------------
(* push_command: aggregation, then git add, commit and push *)

\* What run_git_command returns as output of git log, and of a git push
\* that fails.
LogOutputs == {<<>>, <<"\n">>, <<"c">>}
PushOutputs == {<<"has no upstream branch">>, <<"rejected">>}

\* The state push_command works on: journal_root as get_journal_root
\* returns it, whether the directory and its .git exist, the commands run so
\* far (aggregate_command and the git commands), and the locals; a success
\* flag is <<>> as long as its command has not run.
PushStates ==
    { [journal_root |-> root, root_exists |-> r, is_git |-> g, commands |-> <<>>,
       add_success |-> <<>>, check_success |-> FALSE, check_output |-> <<>>,
       tried |-> 0, has_unpushed_commits |-> FALSE, commit_success |-> <<>>,
       push_success |-> <<>>, push_output |-> <<>>] :
        root \in {None, <<"j", "o", "u", "r", "n", "a", "l">>},
        r \in BOOLEAN, g \in BOOLEAN }

Ran(push_, command) == [push_ EXCEPT !.commands = Append(@, command)]

\* The branches the fallback tries (line 289).
FallbackBranches == <<"main", "master">>

\* check_success and check_output.strip() (line 294), as a truth value.
HasUnpushed(check_success, check_output) == check_success /\ Len(Strip(check_output)) > 0

\* A faulty variant: the command goes on after a git add that failed.
AfterAdd_GoesOn(success) == "branch"

\* Lines 271-273: where the command goes after git add.
AfterAdd(success) ==
    IF success THEN "branch" ELSE "returned"

InitPush ==
    /\ pc = "start"
    /\ push \in {p \in PushStates : p.is_git => p.root_exists}
    /\ journal = <<>>
    /\ content = <<>>
    /\ section_content = NoSections
    /\ sections = NoSections
    /\ time_section = <<>>
    /\ time_data = NoTimeData
    /\ start_time = None
    /\ end_time = None
    /\ extra_hours = None
    /\ duration = <<>>
    /\ work_hours = <<>>
    /\ work_time = None
    /\ NoItems /\ NoAggregate /\ NoDashboard /\ NoRollups

PushFrame == UNCHANGED <<journal, docVars, calcVars, itemVars, aggVars, dashVars, rollVars>>

\* Lines 247-259: the three tests before anything is run.
CheckRepository ==
    /\ pc = "start"
    /\ pc' = IF push.journal_root = None \/ ~push.root_exists \/ ~push.is_git
             THEN "returned" ELSE "aggregate"
    /\ UNCHANGED push
    /\ PushFrame

\* Line 263: aggregate_command(); an exception of it leaves push_command.
RunAggregation ==
    /\ pc = "aggregate"
    /\ push' = Ran(push, "aggregate")
    /\ \E raises \in BOOLEAN : pc' = IF raises THEN "raised" ELSE "add"
    /\ PushFrame

\* Lines 270-273
GitAdd ==
    /\ pc = "add"
    /\ \E success \in BOOLEAN :
          /\ push' = [Ran(push, "git add") EXCEPT !.add_success = <<success>>]
          /\ pc' = AfterAdd(success)
    /\ PushFrame

\* Lines 279-280
GitBranch ==
    /\ pc = "branch"
    /\ push' = Ran(push, "git branch")
    /\ pc' = "log"
    /\ PushFrame

\* Lines 283-284
GitLog ==
    /\ pc = "log"
    /\ \E success \in BOOLEAN : \E output \in LogOutputs :
          /\ push' = [Ran(push, "git log") EXCEPT !.check_success = success,
                                                !.check_output = output]
          /\ pc' = IF success THEN "unpushed" ELSE "remote"
    /\ PushFrame

\* Lines 286-287
GitRemote ==
    /\ pc = "remote"
    /\ push' = Ran(push, "git remote")
    /\ \E success \in BOOLEAN : pc' = IF success THEN "fallback" ELSE "unpushed"
    /\ PushFrame

\* Lines 289-292: one turn of the loop over main and master.
GitLogFallback ==
    /\ pc = "fallback"
    /\ push.tried < Len(FallbackBranches)
    /\ \E success \in BOOLEAN : \E output \in LogOutputs :
          /\ push' = [Ran(push, "git log") EXCEPT !.check_success = success,
                                                !.check_output = output,
                                                !.tried = @ + 1]
          /\ pc' = IF success \/ push.tried + 1 = Len(FallbackBranches)
                   THEN "unpushed" ELSE "fallback"
    /\ PushFrame

\* Line 294
SetHasUnpushed ==
    /\ pc = "unpushed"
    /\ push' = [push EXCEPT !.has_unpushed_commits =
                               HasUnpushed(push.check_success, push.check_output)]
    /\ pc' = "commit"
    /\ PushFrame

\* Lines 297-314 and 358-359
GitCommit ==
    /\ pc = "commit"
    /\ \E success \in BOOLEAN :
          /\ push' = [Ran(push, "git commit") EXCEPT
                         !.commit_success = <<success>>,
                         !.has_unpushed_commits = IF success THEN TRUE ELSE @]
          /\ pc' = IF push.has_unpushed_commits \/ success THEN "push" ELSE "returned"
    /\ PushFrame

\* Lines 315-324 and 342-343
GitPush ==
    /\ pc = "push"
    /\ \E success \in BOOLEAN : \E output \in PushOutputs :
          /\ push' = [Ran(push, "git push") EXCEPT
                         !.push_success = <<success>>,
                         !.push_output = IF success THEN <<>> ELSE output]
          /\ pc' = IF success THEN "returned" ELSE "branch_again"
    /\ PushFrame

\* Lines 328-332 and 345-349
GitBranchAgain ==
    /\ pc = "branch_again"
    /\ push' = Ran(push, "git branch")
    /\ pc' = "push_upstream"
    /\ PushFrame

\* Lines 335-341 and 351-357
GitPushUpstream ==
    /\ pc = "push_upstream"
    /\ \E success \in BOOLEAN :
          push' = [Ran(push, "git push -u") EXCEPT !.push_success = <<success>>]
    /\ pc' = "returned"
    /\ PushFrame

NextPush ==
    \/ CheckRepository
    \/ RunAggregation
    \/ GitAdd
    \/ GitBranch
    \/ GitLog
    \/ GitRemote
    \/ GitLogFallback
    \/ SetHasUnpushed
    \/ GitCommit
    \/ GitPush
    \/ GitBranchAgain
    \/ GitPushUpstream
SpecPush == InitPush /\ [][NextPush]_vars

\* The steps the claim orders, and where they stand among the commands run.
MainSteps == <<"aggregate", "git add", "git commit", "git push", "git push -u">>
IsMainStep(command) == \E k \in 1..Len(MainSteps) : MainSteps[k] = command
Steps(command) == {i \in 1..Len(push.commands) : push.commands[i] = command}

\* C30: in a run of push_command the steps aggregation, git add, git
\* commit, git push and git push with upstream are taken in this order,
\* each at most once and none without the ones before it; nothing is run
\* when the journal root is missing or is no git repository; no commit and
\* no push follows a git add that failed; a push is attempted only when the
\* commit succeeded or unpushed commits were found before it; and there are
\* at most two attempts to push, the plain one first.
C30_StepsInOrder ==
    /\ \E n \in 0..Len(MainSteps) :
          SelectSeq(push.commands, IsMainStep) = SubSeq(MainSteps, 1, n)
    /\ (push.journal_root = None \/ ~push.root_exists \/ ~push.is_git) =>
          push.commands = <<>>
    /\ push.add_success = <<FALSE>> =>
          Steps("git commit") \cup Steps("git push") \cup Steps("git push -u") = {}
    /\ Steps("git push") # {} =>
          \/ push.commit_success = <<TRUE>>
          \/ /\ push.check_success /\ Len(Strip(push.check_output)) > 0
             /\ \E i \in Steps("git log") : \A j \in Steps("git commit") : i < j
    /\ Cardinality(Steps("git push") \cup Steps("git push -u")) <= 2
    /\ Steps("git push -u") # {} => Steps("git push") # {}

\* The commit has failed, unpushed commits were found by the second git log,
\* the plain push has failed and the push with upstream has been run.
C30_Witness ==
    /\ pc = "returned"
    /\ push.commit_success = <<FALSE>>
    /\ push.has_unpushed_commits
    /\ push.commands = <<"aggregate", "git add", "git branch", "git log", "git remote",
                         "git log", "git commit", "git push", "git branch", "git push -u">>


====
